---- MODULE Spec2Model ----
(***************************************************************************)
(* FlightTicker: the search orchestrator (flight_ticker.application        *)
(* FlightSearchService.search with its three strategies), the              *)
(* deduplication / filter pipeline and the scoring and ranking services,   *)
(* in both packages of the repository (src/flight_ticker and the older     *)
(* src/application).                                                       *)
(*                                                                         *)
(* Numbers.  A price is a Python float.  The model keeps prices as         *)
(* integers counted in 1/PriceScale of a currency unit; PriceScale is a    *)
(* power of two, so every price of the model, every sum of two of them     *)
(* and every mean of two of them is a double the program holds exactly.    *)
(* Scores are quotients of such numbers; the model keeps them as reduced   *)
(* fractions <<n, d>> (exact arithmetic, no rounding error).               *)
(*                                                                         *)
(* Optional values.  None of an Optional[float] / Optional[int] field is   *)
(* the empty sequence <<>> and a value v is <<v>>; None of an              *)
(* Optional[str] is the string NoneStr; a missing ai_score is NoScore.     *)
(***************************************************************************)
EXTENDS Integers, Sequences, FiniteSets, TLC

(***************************************************************************)
(* Bounds of the model.                                                    *)
(***************************************************************************)
\* longest offer sequence handed to a pipeline function
MaxLen == 3
\* max_combinations the SplitTicketsStrategy is constructed with
MaxCombinations == 2

\* prices are counted in 1/256 of a currency unit
PriceScale == 16 * 16

NoneStr == "None"
NoScore == <<>>

(***************************************************************************)
(* Exact rational arithmetic for the float expressions of the scorers.     *)
(***************************************************************************)
RECURSIVE GCD(_, _)
GCD(a, b) == IF b = 0 THEN a ELSE GCD(b, a % b)

Abs(x) == IF x < 0 THEN -x ELSE x

\* the reduced fraction n/d, d > 0
Rat(n, d) ==
    LET g == GCD(Abs(n), d)
    IN  IF g = 0 THEN <<0, 1>> ELSE <<n \div g, d \div g>>

RInt(n) == <<n, 1>>

RMul(a, b) ==
    LET g1 == GCD(Abs(a[1]), b[2])
        g2 == GCD(Abs(b[1]), a[2])
    IN  Rat((a[1] \div g1) * (b[1] \div g2), (a[2] \div g2) * (b[2] \div g1))

\* a / b for b > 0
RDiv(a, b) == RMul(a, <<b[2], b[1]>>)

RAdd(a, b) ==
    LET g == GCD(a[2], b[2])
    IN  Rat(a[1] * (b[2] \div g) + b[1] * (a[2] \div g), (a[2] \div g) * b[2])

RNeg(a) == <<-a[1], a[2]>>

\* -1, 0, 1 as a/b is below, equal to, above c/d (b, d > 0), by the
\* continued-fraction expansion, so that no product can overflow
RECURSIVE RCmp4(_, _, _, _)
RCmp4(a, b, c, d) ==
    LET qa == a \div b
        qc == c \div d
        ra == a % b
        rc == c % d
    IN  IF qa < qc THEN -1
        ELSE IF qa > qc THEN 1
        ELSE IF ra = 0 /\ rc = 0 THEN 0
        ELSE IF ra = 0 THEN -1
        ELSE IF rc = 0 THEN 1
        ELSE RCmp4(d, rc, b, ra)

RCmp(x, y) == RCmp4(x[1], x[2], y[1], y[2])
RLess(x, y) == RCmp(x, y) = -1
RLeq(x, y) == RCmp(x, y) <= 0
RMin(x, y) == IF RLess(y, x) THEN y ELSE x
RMax(x, y) == IF RLess(x, y) THEN y ELSE x

(***************************************************************************)
(* Domain model (flight_ticker/domain/models.py, domain/entities.py).      *)
(***************************************************************************)
Segment(o, d) == [origin |-> o, destination |-> d]

\* FlightOffer.total_stops
total_stops(offer) ==
    IF Len(offer.segments) - 1 > 0 THEN Len(offer.segments) - 1 ELSE 0

\* FlightOffer.route_summary: the joined string, kept as the sequence of
\* the codes it joins (the join is one-to-one on IATA codes)
route_summary(offer) ==
    IF offer.segments = <<>> THEN <<>>
    ELSE <<offer.segments[1].origin>>
         \o [i \in 1..Len(offer.segments) |-> offer.segments[i].destination]

\* truth value Python gives an Optional number (None and 0 are false)
Truthy(opt) == opt # <<>> /\ opt[1] # 0

\* SearchCriteria.is_round_trip
is_round_trip(c) == c.return_dates # <<>>

\* round(x, 2) of a float x = p / PriceScale, in cents: the nearest cent,
\* an exact tie going to the even cent
Round2(p) ==
    LET q == (p * 100) \div PriceScale
        r == (p * 100) % PriceScale
    IN  IF 2 * r > PriceScale \/ (2 * r = PriceScale /\ q % 2 = 1)
        THEN q + 1 ELSE q

(***************************************************************************)
(* Deduplication.                                                          *)
(***************************************************************************)
\* flight_ticker: signature = (provider, route_summary, round(price, 2))
signature(offer) ==
    <<offer.provider, route_summary(offer), Round2(offer.price_total)>>

RECURSIVE dedup_loop(_, _, _, _)
dedup_loop(offers, i, seen, unique) ==
    IF i > Len(offers) THEN unique
    ELSE IF signature(offers[i]) \notin seen
         THEN dedup_loop(offers, i + 1, seen \cup {signature(offers[i])},
                         Append(unique, offers[i]))
         ELSE dedup_loop(offers, i + 1, seen, unique)

\* a deduplication that deletes from the list it is iterating over: the
\* element that follows a deleted one is skipped
RECURSIVE dedup_in_place(_, _, _)
dedup_in_place(offers, i, seen) ==
    IF i > Len(offers) THEN offers
    ELSE IF signature(offers[i]) \in seen
         THEN dedup_in_place(SubSeq(offers, 1, i - 1)
                                \o SubSeq(offers, i + 1, Len(offers)),
                             i + 1, seen)
         ELSE dedup_in_place(offers, i + 1, seen \cup {signature(offers[i])})

deduplicate_in_place(offers) == dedup_in_place(offers, 1, {})

\* FlightSearchService._deduplicate_offers
deduplicate_offers(offers) == dedup_loop(offers, 1, {}, <<>>)

\* application package: signature = (provider, route_summary,
\* round(price, 2), currency)
legacy_signature(offer) ==
    <<offer.provider, route_summary(offer), Round2(offer.price_total),
      offer.currency>>

RECURSIVE remove_dup_loop(_, _, _, _)
remove_dup_loop(offers, i, seen, unique) ==
    IF i > Len(offers) THEN unique
    ELSE IF legacy_signature(offers[i]) \notin seen
         THEN remove_dup_loop(offers, i + 1,
                              seen \cup {legacy_signature(offers[i])},
                              Append(unique, offers[i]))
         ELSE remove_dup_loop(offers, i + 1, seen, unique)

\* application FlightSearchService._remove_duplicates
remove_duplicates(offers) == remove_dup_loop(offers, 1, {}, <<>>)

(***************************************************************************)
(* Filters.                                                                *)
(***************************************************************************)
RECURSIVE TakeWhile(_, _, _)
TakeWhile(offers, i, limit) ==
    IF i > Len(offers) \/ offers[i].price_total > limit THEN <<>>
    ELSE <<offers[i]>> \o TakeWhile(offers, i + 1, limit)

\* a price filter that stops at the first offer above the limit
filter_max_price_break(offers, criteria) ==
    IF Truthy(criteria.max_price)
    THEN TakeWhile(offers, 1, criteria.max_price[1])
    ELSE offers

\* "if criteria.max_price: filtered = [o for o in filtered if ...]"
filter_max_price(offers, criteria) ==
    IF Truthy(criteria.max_price)
    THEN SelectSeq(offers, LAMBDA o : o.price_total <= criteria.max_price[1])
    ELSE offers

\* "if criteria.max_stops is not None: filtered = [o for o in ...]"
filter_max_stops(offers, criteria) ==
    IF criteria.max_stops # <<>>
    THEN SelectSeq(offers, LAMBDA o : total_stops(o) <= criteria.max_stops[1])
    ELSE offers

\* flight_ticker FlightSearchService._apply_filters
apply_filters(offers, criteria) ==
    filter_max_stops(filter_max_price(offers, criteria), criteria)

\* application FlightSearchService._apply_filters: one pass, an offer is
\* skipped on the stops test first, then on the price test
legacy_apply_filters(offers, criteria) ==
    SelectSeq(offers, LAMBDA o :
        /\ ~(criteria.max_stops # <<>> /\ total_stops(o) > criteria.max_stops[1])
        /\ ~(Truthy(criteria.max_price) /\ o.price_total > criteria.max_price[1]))

(***************************************************************************)
(* Scoring and ranking.                                                    *)
(***************************************************************************)
\* a price as a number
PriceRat(p) == Rat(p, PriceScale)

\* the builtin sorted() on numbers
RECURSIVE SortedInts(_)
SortedInts(s) ==
    IF s = <<>> THEN <<>>
    ELSE LET rest == SortedInts(SubSeq(s, 1, Len(s) - 1))
             x == s[Len(s)]
             k == Cardinality({i \in 1..Len(rest) : rest[i] <= x})
         IN  SubSeq(rest, 1, k) \o <<x>> \o SubSeq(rest, k + 1, Len(rest))

\* float(np.median(prices)) of a non-empty list: the middle element, or
\* the mean of the two middle elements
median(prices) ==
    LET srt == SortedInts(prices)
        n == Len(srt)
    IN  IF n % 2 = 1 THEN PriceRat(srt[(n + 1) \div 2])
        ELSE Rat(srt[n \div 2] + srt[n \div 2 + 1], 2 * PriceScale)

\* str.upper() on the cabin names of the model
Upper(str) == IF str = "economy" THEN "ECONOMY" ELSE str

\* AIFlightScoringService._get_cabin_factor
get_cabin_factor(cabin_class) ==
    IF cabin_class = NoneStr THEN RInt(1)
    ELSE CASE Upper(cabin_class) = "ECONOMY" -> Rat(105, 100)
           [] Upper(cabin_class) = "PREMIUM_ECONOMY" -> Rat(98, 100)
           [] Upper(cabin_class) = "BUSINESS" -> Rat(90, 100)
           [] Upper(cabin_class) = "FIRST" -> Rat(85, 100)
           [] OTHER -> RInt(1)

\* np.clip(x, lo, hi)
clip(x, lo, hi) == RMin(RMax(x, lo), hi)

\* the sort key of score_offers / rank_offers:
\* (-x.ai_score if x.ai_score else 0.0, x.price_total)
key_without_price(x) ==
    <<IF x.ai_score # NoScore /\ x.ai_score[1] # 0
      THEN RNeg(x.ai_score) ELSE RInt(0), 0>>

score_sort_key(x) ==
    <<IF x.ai_score # NoScore /\ x.ai_score[1] # 0
      THEN RNeg(x.ai_score) ELSE RInt(0), x.price_total>>

\* tuple comparison k1 <= k2 of two sort keys
KeyLeq(k1, k2) ==
    RLess(k1[1], k2[1]) \/ (k1[1] = k2[1] /\ k1[2] <= k2[2])

\* the builtin sorted(offers, key = score_sort_key): a stable sort
RECURSIVE sorted_by_score(_)
sorted_by_score(offers) ==
    IF offers = <<>> THEN <<>>
    ELSE LET rest == sorted_by_score(SubSeq(offers, 1, Len(offers) - 1))
             x == offers[Len(offers)]
             k == Cardinality({i \in 1..Len(rest) :
                      KeyLeq(score_sort_key(rest[i]), score_sort_key(x))})
         IN  SubSeq(rest, 1, k) \o <<x>> \o SubSeq(rest, k + 1, Len(rest))

\* AIFlightScoringService._calculate_score, the score of the pair it
\* returns; reference_price is a number
calculate_score(offer, reference_price) ==
    LET price_factor ==
            RMin(RDiv(reference_price,
                      RMax(PriceRat(offer.price_total), Rat(1, 1000000))),
                 RInt(2))
        stops_penalty ==
            RDiv(RInt(1), RAdd(RInt(1), RMul(Rat(4, 10), RInt(total_stops(offer)))))
        baggage_bonus == IF offer.baggage_included THEN Rat(11, 10) ELSE RInt(1)
        cabin_factor == get_cabin_factor(offer.cabin_class)
        extra == IF Len(offer.segments) - 2 > 0 THEN Len(offer.segments) - 2 ELSE 0
        complexity_penalty ==
            RDiv(RInt(1), RAdd(RInt(1), RMul(Rat(1, 10), RInt(extra))))
        raw_score ==
            RMul(RMul(RMul(RMul(price_factor, stops_penalty), baggage_bonus),
                      cabin_factor), complexity_penalty)
    IN  clip(RMul(raw_score, RInt(35)), RInt(0), RInt(100))

\* a scoring service that leaves a single offer as it came
score_offers_skip_single(offers) ==
    IF Len(offers) <= 1 THEN offers
    ELSE LET reference_price == median([i \in 1..Len(offers) |-> offers[i].price_total])
         IN  sorted_by_score([i \in 1..Len(offers) |->
                 [offers[i] EXCEPT !.ai_score = calculate_score(offers[i], reference_price)]])

\* AIFlightScoringService.score_offers
score_offers(offers) ==
    IF offers = <<>> THEN offers
    ELSE LET reference_price == median([i \in 1..Len(offers) |-> offers[i].price_total])
         IN  sorted_by_score([i \in 1..Len(offers) |->
                 [offers[i] EXCEPT !.ai_score = calculate_score(offers[i], reference_price)]])

(***************************************************************************)
(* application package: AIRankingService.                                  *)
(***************************************************************************)
\* AIRankingService._calculate_price_score
calculate_price_score(price, reference) ==
    IF price <= 0 \/ reference[1] <= 0 THEN Rat(5, 10)
    ELSE RMin(RInt(1), RMax(Rat(1, 10), RDiv(reference, PriceRat(price))))

\* AIRankingService._calculate_stops_score
calculate_stops_score(stops) ==
    IF stops = 0 THEN RInt(1)
    ELSE IF stops = 1 THEN Rat(8, 10)
    ELSE IF stops = 2 THEN Rat(6, 10)
    ELSE Rat(3, 10)

\* AIRankingService._calculate_duration_score; 1.0 - n * 0.1 is kept
\* as (10 - n) / 10 and compared with 0.3 on its numerator
calculate_duration_score(offer) ==
    IF offer.segments = <<>> THEN Rat(5, 10)
    ELSE IF 10 - Len(offer.segments) > 3 THEN Rat(10 - Len(offer.segments), 10)
    ELSE Rat(3, 10)

\* AIRankingService._calculate_baggage_score
calculate_baggage_score(offer) ==
    IF offer.baggage_included THEN RInt(1) ELSE Rat(7, 10)

\* AIRankingService._calculate_cabin_score
calculate_cabin_score(offer) ==
    LET cabin == Upper(IF offer.cabin_class = NoneStr THEN "ECONOMY"
                       ELSE offer.cabin_class)
    IN  CASE cabin = "ECONOMY" -> RInt(1)
          [] cabin = "PREMIUM_ECONOMY" -> Rat(9, 10)
          [] cabin = "BUSINESS" -> Rat(7, 10)
          [] cabin = "FIRST" -> Rat(5, 10)
          [] OTHER -> Rat(8, 10)

\* AIRankingService._calculate_reliability_score
calculate_reliability_score(offer) ==
    CASE offer.provider = "Kiwi/Tequila" -> Rat(90, 100)
      [] offer.provider = "Amadeus" -> Rat(95, 100)
      [] offer.provider = "SplitTickets" -> Rat(7, 10)
      [] OTHER -> Rat(8, 10)

\* AIRankingService.score_offer, the score of the pair it returns
score_offer(offer, reference_price) ==
    LET final_score ==
            RMul(RAdd(RAdd(RAdd(RAdd(RAdd(
                RMul(calculate_price_score(offer.price_total, reference_price), Rat(40, 100)),
                RMul(calculate_stops_score(total_stops(offer)), Rat(25, 100))),
                RMul(calculate_duration_score(offer), Rat(15, 100))),
                RMul(calculate_baggage_score(offer), Rat(10, 100))),
                RMul(calculate_cabin_score(offer), Rat(5, 100))),
                RMul(calculate_reliability_score(offer), Rat(5, 100))),
                RInt(100))
    IN  RMax(RInt(0), RMin(RInt(100), final_score))

\* AIRankingService.rank_offers
rank_offers(offers) ==
    IF offers = <<>> THEN offers
    ELSE LET reference_price == median([i \in 1..Len(offers) |-> offers[i].price_total])
         IN  sorted_by_score([i \in 1..Len(offers) |->
                 [offers[i] EXCEPT !.ai_score = score_offer(offers[i], reference_price)]])

(***************************************************************************)
(* Inputs of the pipeline functions.                                       *)
(***************************************************************************)
BaseOffer ==
    [provider |-> "Kiwi/Tequila", price_total |-> 10 * PriceScale,
     currency |-> "EUR", baggage_included |-> FALSE, cabin_class |-> "ECONOMY",
     segments |-> <<Segment("GIG", "LIS")>>, notes |-> NoneStr,
     ai_score |-> NoScore]

\* the base offer, the offers that differ from it in one field, a dearer
\* and a cheaper one-stop offer
OfferCatalog ==
    { BaseOffer,
      [BaseOffer EXCEPT !.notes = "promo"],
      [BaseOffer EXCEPT !.currency = "USD"],
      [BaseOffer EXCEPT !.price_total = 10 * PriceScale + 1],
      [BaseOffer EXCEPT !.price_total = 0],
      [BaseOffer EXCEPT !.provider = "Amadeus"],
      [BaseOffer EXCEPT !.cabin_class = "BUSINESS"],
      [BaseOffer EXCEPT !.price_total = 20 * PriceScale,
                        !.baggage_included = TRUE,
                        !.segments = <<Segment("GIG", "MAD"), Segment("MAD", "LIS")>>],
      [BaseOffer EXCEPT !.price_total = 5 * PriceScale,
                        !.segments = <<Segment("GIG", "MAD"), Segment("MAD", "LIS")>>] }

OfferSeqs == UNION {[1..n -> OfferCatalog] : n \in 0..MaxLen}

\* offers for the scorers alone: every cabin, baggage flag, 0 to 4
\* segments and a few prices
RouteOfLen(n) == [i \in 1..n |-> Segment("GIG", "LIS")]

ScoredOfferSpace ==
    { [provider |-> pr, price_total |-> p, currency |-> "EUR",
       baggage_included |-> b, cabin_class |-> cab, segments |-> RouteOfLen(n),
       notes |-> NoneStr, ai_score |-> NoScore] :
         pr \in {"Kiwi/Tequila", "SplitTickets"},
         p \in {0, 1, 5 * PriceScale, 10 * PriceScale, 40 * PriceScale},
         b \in BOOLEAN,
         cab \in {NoneStr, "economy", "ECONOMY", "PREMIUM_ECONOMY", "BUSINESS",
                  "FIRST", "CHARTER"},
         n \in 0..4 }

ReferencePrices ==
    {Rat(0, 1), Rat(1, 2 * PriceScale), RInt(5), RInt(10), RInt(40)}

NoCriteria ==
    [origin |-> "GIG", destination |-> "LIS", depart_dates |-> <<>>,
     return_dates |-> <<>>, cabin_class |-> NoneStr,
     max_price |-> <<>>, max_stops |-> <<>>]

FilterCriteria ==
    { [NoCriteria EXCEPT !.max_price = mp, !.max_stops = ms] :
        mp \in {<<>>, <<0>>, <<10 * PriceScale>>}, ms \in {<<>>, <<0>>} }

(***************************************************************************)
(* State.                                                                  *)
(***************************************************************************)
VARIABLES
    criteria,         \* the SearchCriteria of the call
    providers,        \* FlightSearchService._providers, in registration order
    hub_order,        \* iteration order of the set of hub combinations
    pc,               \* where FlightSearchService.search is
    strategy_state,   \* per strategy task: absent, running, returned, raised
    strategy_result,  \* per strategy task: the list it returned
    flex_calls,       \* flexible dates: the provider calls made so far
    flex_offers,      \* flexible dates: its local all_offers
    alt_calls,        \* alternative airports: its search_tasks
    split_i,          \* split tickets: index of the combination being searched
    split_calls,      \* split tickets: all_tasks of that combination
    split_offers,     \* split tickets: its local split_offers
    all_offers,       \* search: the merged list
    result,           \* search: the SearchResult returned, <<>> before
    overtaken,        \* a gathered call has settled before an earlier one
    split_failed,     \* split tickets: a call of a finished combination raised
    fn_offers,        \* pipeline function under test: its offer list
    fn_offer,         \* scorer under test: <<offer>>, or <<>>
    fn_ref,           \* scorer under test: its reference price
    fn_applied,       \* which function has been applied, "none" before
    fn_result,        \* the list it returned
    fn_score,         \* the score it returned
    fn_args,          \* helper under test: its arguments, a record
    fn_order,         \* helper under test: iteration order of its sets
    fn_calls,         \* helper under test: the searches it issued
    fn_outcome        \* how the function left: "none", "returned", "raised"

orch_vars ==
    <<providers, hub_order, pc, strategy_state, strategy_result, flex_calls,
      flex_offers, alt_calls, split_i, split_calls, split_offers, all_offers,
      result, overtaken, split_failed>>

fn_vars ==
    <<fn_offers, fn_offer, fn_ref, fn_applied, fn_result, fn_score, fn_args,
      fn_order, fn_calls, fn_outcome>>

\* no helper arguments
NoArgs == [kind |-> "none"]

vars == <<criteria, orch_vars, fn_vars>>

Strategies == <<"flexible_dates", "alternative_airports", "split_tickets">>

StrategyNames == {Strategies[i] : i \in 1..Len(Strategies)}

\* no search is running
OrchIdle ==
    /\ providers = <<>>
    /\ hub_order = <<>>
    /\ pc = "idle"
    /\ strategy_state = [s \in StrategyNames |-> "absent"]
    /\ strategy_result = [s \in StrategyNames |-> <<>>]
    /\ flex_calls = <<>>
    /\ flex_offers = <<>>
    /\ alt_calls = <<>>
    /\ split_i = 0
    /\ split_calls = <<>>
    /\ split_offers = <<>>
    /\ all_offers = <<>>
    /\ result = <<>>
    /\ overtaken = FALSE
    /\ split_failed = FALSE

\* no pipeline function is under test
FnIdle ==
    /\ fn_offers = <<>>
    /\ fn_offer = <<>>
    /\ fn_ref = RInt(0)
    /\ fn_applied = "none"
    /\ fn_result = <<>>
    /\ fn_score = NoScore
    /\ fn_args = NoArgs
    /\ fn_order = <<>>
    /\ fn_calls = <<>>
    /\ fn_outcome = "none"

(***************************************************************************)
(* The pipeline functions applied to bounded inputs.                       *)
(***************************************************************************)
ReturnList(name, list) ==
    /\ fn_applied = "none"
    /\ fn_offer = <<>>
    /\ fn_args = NoArgs
    /\ fn_applied' = name
    /\ fn_result' = list
    /\ fn_outcome' = "returned"
    /\ UNCHANGED <<criteria, orch_vars, fn_offers, fn_offer, fn_ref, fn_score,
                   fn_args, fn_order, fn_calls>>

ReturnScore(name, score) ==
    /\ fn_applied = "none"
    /\ fn_offer # <<>>
    /\ fn_applied' = name
    /\ fn_score' = score
    /\ fn_outcome' = "returned"
    /\ UNCHANGED <<criteria, orch_vars, fn_offers, fn_offer, fn_ref, fn_result,
                   fn_args, fn_order, fn_calls>>

CallDeduplicateOffers ==
    ReturnList("deduplicate_offers", deduplicate_offers(fn_offers))

CallRemoveDuplicates ==
    ReturnList("remove_duplicates", remove_duplicates(fn_offers))

CallApplyFilters ==
    ReturnList("apply_filters", apply_filters(fn_offers, criteria))

CallLegacyApplyFilters ==
    ReturnList("legacy_apply_filters", legacy_apply_filters(fn_offers, criteria))

CallScoreOffers ==
    ReturnList("score_offers", score_offers(fn_offers))

\* search, lines 39-48, on the merged offers of the strategies: the offers
\* of the SearchResult
search_pipeline(offers, c) ==
    score_offers(apply_filters(deduplicate_offers(offers), c))

CallSearchPipeline ==
    ReturnList("search_pipeline", search_pipeline(fn_offers, criteria))

CallRankOffers ==
    ReturnList("rank_offers", rank_offers(fn_offers))

CallCalculateScore ==
    ReturnScore("calculate_score", calculate_score(fn_offer[1], fn_ref))

CallScoreOffer ==
    ReturnScore("score_offer", score_offer(fn_offer[1], fn_ref))


(***************************************************************************)
(* Strategies (flight_ticker/infrastructure/strategies).                   *)
(***************************************************************************)
\* FlexibleDatesStrategy(providers, days_range=3)
DaysRange == 3

\* A date string is [day, form]: the day it names (a day number) and how
\* it is written; "%Y-%m-%d" parses every form but "garbage".
DateStr(day, form) == [day |-> day, form |-> form]

CanParse(date) == date.form # "garbage"

\* strftime("%Y-%m-%d")
Format(day) == DateStr(day, "padded")

\* two dates and a string that is no date
D0 == DateStr(100, "padded")
D1 == DateStr(110, "padded")
Garbage == DateStr(0, "garbage")

\* Day numbers count from 1000-01-01 (day 0); datetime holds no date after
\* 9999-12-31, and dt + timedelta raises OverflowError beyond it.
DateMax == 3287181

\* sorted(set(...)) of formatted dates: zero-padded strings sort by day
RECURSIVE sorted_set(_)
sorted_set(dates) ==
    IF dates = {} THEN <<>>
    ELSE LET first == CHOOSE x \in dates : \A y \in dates : x.day <= y.day
         IN  <<first>> \o sorted_set(dates \ {first})

\* what a call of an expander gives: a list of date strings, or an exception
DatesReturned(dates) == [outcome |-> "returned", dates |-> dates]

DatesRaised == [outcome |-> "raised", dates |-> <<>>]

\* the legacy expander with range(-days_before, days_after)
expand_flexible_dates_exclusive(base_date, days_before, days_after) ==
    IF ~CanParse(base_date) THEN DatesReturned(<<base_date>>)
    ELSE IF base_date.day + days_after - 1 > DateMax THEN DatesRaised
    ELSE DatesReturned(sorted_set({Format(base_date.day + delta) :
                                     delta \in (0 - days_before)..(days_after - 1)}))

\* FlightStrategyService.expand_flexible_dates: a ValueError of strptime
\* is caught and gives [base_date]; the OverflowError of a day past the
\* last date is not caught
expand_flexible_dates(base_date, days_before, days_after) ==
    IF ~CanParse(base_date) THEN DatesReturned(<<base_date>>)
    ELSE IF base_date.day + days_after > DateMax THEN DatesRaised
    ELSE DatesReturned(sorted_set({Format(base_date.day + delta) :
                                     delta \in (0 - days_before)..days_after}))

\* FlexibleDatesStrategy._expand_dates with days_range: no exception is
\* caught, neither the ValueError of strptime nor the OverflowError
expand_dates_call(base_date, days_range) ==
    IF ~CanParse(base_date) THEN DatesRaised
    ELSE IF base_date.day + days_range > DateMax THEN DatesRaised
    ELSE DatesReturned(sorted_set({Format(base_date.day + delta) :
                                     delta \in (0 - days_range)..days_range}))

\* A month string is [first, days, form]: the day number of its first
\* day, its number of days, and whether "YYYY-MM" splits and converts.
MonthStr(first, days, form) == [first |-> first, days |-> days, form |-> form]

\* FlightTickerCLI._expand_month: [] for a string that is no month; the
\* first day of the next month is built outside the try, and
\* date(10000, 1, 1) raises ValueError for the last month
expand_month(year_month) ==
    IF year_month.form = "garbage" THEN DatesReturned(<<>>)
    ELSE IF year_month.first + year_month.days > DateMax THEN DatesRaised
    ELSE DatesReturned([i \in 1..year_month.days |->
                           Format(year_month.first + i - 1)])

\* FlexibleDatesStrategy._expand_dates for a date that parses:
\* sorted(set(...)) of the 2 * days_range + 1 formatted days
expand_dates(base_date) ==
    [i \in 1..(2 * DaysRange + 1) |-> Format(base_date.day - DaysRange + i - 1)]

\* the exceptions FlexibleDatesStrategy.execute raises before its first
\* provider call: depart_dates[0] of an empty list, strptime of a string
\* that does not parse
flex_raises_at_start(c) ==
    \/ c.depart_dates = <<>>
    \/ ~CanParse(c.depart_dates[1])
    \/ (c.return_dates # <<>> /\ ~CanParse(c.return_dates[1]))

\* the expanded_criteria of FlexibleDatesStrategy.execute
expanded_criteria(c) ==
    [c EXCEPT !.depart_dates = expand_dates(c.depart_dates[1]),
              !.return_dates = IF c.return_dates # <<>>
                               THEN expand_dates(c.return_dates[1])
                               ELSE c.return_dates]

\* AlternativeAirportsStrategy.AIRPORT_GROUPS
AIRPORT_GROUPS ==
    [g \in {"SAO", "RIO", "LON", "PAR", "NYC", "MIL", "ROM", "BER"} |->
        CASE g = "SAO" -> {"GRU", "CGH", "VCP"}
          [] g = "RIO" -> {"GIG", "SDU"}
          [] g = "LON" -> {"LHR", "LGW", "STN", "LTN", "LCY", "SEN"}
          [] g = "PAR" -> {"CDG", "ORY", "BVA"}
          [] g = "NYC" -> {"JFK", "EWR", "LGA"}
          [] g = "MIL" -> {"MXP", "LIN", "BGY"}
          [] g = "ROM" -> {"FCO", "CIA"}
          [] g = "BER" -> {"BER", "SXF", "TXL"}]

\* a resolver that knows the group keys only
get_alternative_airports_keys_only(airport_code) ==
    IF airport_code \in DOMAIN AIRPORT_GROUPS THEN AIRPORT_GROUPS[airport_code]
    ELSE {airport_code}

\* AlternativeAirportsStrategy._get_alternative_airports
get_alternative_airports(airport_code) ==
    IF airport_code \in DOMAIN AIRPORT_GROUPS THEN AIRPORT_GROUPS[airport_code]
    ELSE IF \E g \in DOMAIN AIRPORT_GROUPS : airport_code \in AIRPORT_GROUPS[g]
         THEN AIRPORT_GROUPS[CHOOSE g \in DOMAIN AIRPORT_GROUPS :
                                airport_code \in AIRPORT_GROUPS[g]]
         ELSE {airport_code}

\* SplitTicketsStrategy.MAJOR_HUBS
MAJOR_HUBS ==
    {"LIS", "MAD", "IST", "CDG", "FRA", "LHR", "AMS", "DOH", "DXB", "MUC",
     "ZRH", "BCN", "FCO", "ATH", "VIE", "CPH", "ARN", "HEL", "WAW"}

\* a generator that forgets the test against the destination
generate_hub_combinations_origin_only(origin, destination) ==
    {<<origin, hub, destination>> : hub \in {h \in MAJOR_HUBS : h # origin}}

\* SplitTicketsStrategy._generate_hub_combinations
generate_hub_combinations(origin, destination) ==
    {<<origin, hub, destination>> :
        hub \in {h \in MAJOR_HUBS : h # origin /\ h # destination}}

\* Two of the orders in which a Python set of airport codes may be
\* iterated (the order of a set of strings changes from run to run).
CodeOrderA ==
    <<"AMS", "ARN", "ATH", "BCN", "BER", "BGY", "BVA", "CDG", "CGH", "CIA",
      "CPH", "DOH", "DXB", "EWR", "FCO", "FRA", "GIG", "GRO", "GRU", "HEL",
      "IST", "JFK", "LCY", "LGA", "LGW", "LHR", "LIN", "LIS", "LTN", "MAD",
      "MUC", "MXP", "ORY", "PRG", "SDU", "SEN", "STN", "SXF", "TXL", "VCP",
      "VIE", "WAW", "ZRH">>

CodeOrderB == [i \in 1..Len(CodeOrderA) |-> CodeOrderA[Len(CodeOrderA) + 1 - i]]

\* list(a_set): its members in the iteration order of the run
ListOf(set, order) == SelectSeq(order, LAMBDA code : code \in set)

Min(a, b) == IF a < b THEN a ELSE b

\* list(hub_combinations)[:self._max_combinations]
limited_combinations(c, order) ==
    LET hubs == ListOf({t[2] : t \in generate_hub_combinations(c.origin, c.destination)},
                       order)
    IN  [i \in 1..Min(Len(hubs), MaxCombinations) |->
            <<c.origin, hubs[i], c.destination>>]

\* the loop of AlternativeAirportsStrategy.execute without its "continue"
alternative_pairs_with_original(c, order) ==
    LET origins == ListOf(get_alternative_airports(c.origin), order)
        dests == ListOf(get_alternative_airports(c.destination), order)
    IN  [k \in 1..(Len(origins) * Len(dests)) |->
            <<origins[((k - 1) \div Len(dests)) + 1],
              dests[((k - 1) % Len(dests)) + 1]>>]

\* the (origin, destination) pairs AlternativeAirportsStrategy.execute
\* searches, in loop order
alternative_pairs(c, order) ==
    LET origins == ListOf(get_alternative_airports(c.origin), order)
        dests == ListOf(get_alternative_airports(c.destination), order)
        all == [k \in 1..(Len(origins) * Len(dests)) |->
                   <<origins[((k - 1) \div Len(dests)) + 1],
                     dests[((k - 1) % Len(dests)) + 1]>>]
    IN  SelectSeq(all, LAMBDA pr : ~(pr[1] = c.origin /\ pr[2] = c.destination))

\* min(leg, key=price_total): the first offer of the lowest price
min_by_price(leg) ==
    leg[CHOOSE i \in 1..Len(leg) :
           /\ \A j \in 1..Len(leg) : leg[i].price_total <= leg[j].price_total
           /\ \A j \in 1..(i - 1) : leg[j].price_total > leg[i].price_total]

\* a combination that refuses two legs priced in different currencies
combine_legs_same_currency(first_leg, second_leg, original_criteria) ==
    IF first_leg = <<>> \/ second_leg = <<>> THEN <<>>
    ELSE LET best_first == min_by_price(first_leg)
             best_second == min_by_price(second_leg)
             total_price == best_first.price_total + best_second.price_total
         IN  IF \/ best_first.currency # best_second.currency
                \/ /\ Truthy(original_criteria.max_price)
                   /\ total_price > original_criteria.max_price[1]
             THEN <<>>
             ELSE <<[provider |-> "SplitTickets",
                     price_total |-> total_price,
                     currency |-> best_first.currency,
                     baggage_included |-> best_first.baggage_included
                                            /\ best_second.baggage_included,
                     cabin_class |-> original_criteria.cabin_class,
                     segments |-> best_first.segments \o best_second.segments,
                     notes |-> "BILHETES SEPARADOS",
                     ai_score |-> NoScore]>>

\* SplitTicketsStrategy._combine_legs
combine_legs(first_leg, second_leg, original_criteria) ==
    IF first_leg = <<>> \/ second_leg = <<>> THEN <<>>
    ELSE LET best_first == min_by_price(first_leg)
             best_second == min_by_price(second_leg)
             total_price == best_first.price_total + best_second.price_total
         IN  IF Truthy(original_criteria.max_price)
                /\ total_price > original_criteria.max_price[1]
             THEN <<>>
             ELSE <<[provider |-> "SplitTickets",
                     price_total |-> total_price,
                     currency |-> best_first.currency,
                     baggage_included |-> best_first.baggage_included
                                            /\ best_second.baggage_included,
                     cabin_class |-> original_criteria.cabin_class,
                     segments |-> best_first.segments \o best_second.segments,
                     notes |-> "BILHETES SEPARADOS",
                     ai_score |-> NoScore]>>


(***************************************************************************)
(* Providers (application/interfaces.py FlightProviderInterface).          *)
(***************************************************************************)
\* FlightSearchServiceFactory._create_providers: Kiwi first, then Amadeus
ProviderLists ==
    {<<>>, <<"Kiwi/Tequila">>, <<"Amadeus">>, <<"Kiwi/Tequila", "Amadeus">>}

\* FlightSearchServiceFactory._create_strategies
create_strategies(provs) ==
    IF provs = <<>> THEN {} ELSE StrategyNames

\* the offer a provider builds from one item of a response to `c`
ProviderOffer(p, c) ==
    [provider |-> p, price_total |-> 10 * PriceScale, currency |-> "EUR",
     baggage_included |-> FALSE,
     cabin_class |-> IF p = "Kiwi/Tequila" /\ c.cabin_class = NoneStr
                     THEN "ECONOMY" ELSE c.cabin_class,
     segments |-> <<Segment(c.origin, c.destination)>>, notes |-> NoneStr,
     ai_score |-> NoScore]

\* a provider.search(c) coroutine that has been created and not finished
Call(p, c) == [provider |-> p, criteria |-> c, outcome |-> "pending", offers |-> <<>>]

\* what `await provider.search(c)` can give: an exception, no offer, one
\* offer
Responses(call) ==
    { [outcome |-> "raised", offers |-> <<>>],
      [outcome |-> "returned", offers |-> <<>>],
      [outcome |-> "returned",
       offers |-> <<ProviderOffer(call.provider, call.criteria)>>] }

Settle(call, r) == [call EXCEPT !.outcome = r.outcome, !.offers = r.offers]

Pending(calls) == {i \in 1..Len(calls) : calls[i].outcome = "pending"}

RECURSIVE Flatten(_)
Flatten(lists) ==
    IF lists = <<>> THEN <<>> ELSE Head(lists) \o Flatten(Tail(lists))

\* "for result in results: if isinstance(result, list): extend(result)"
\* over the results of a gather(..., return_exceptions=True)
collect_lists(calls) ==
    Flatten([i \in 1..Len(calls) |->
                IF calls[i].outcome = "returned" THEN calls[i].offers ELSE <<>>])

\* search_tasks of AlternativeAirportsStrategy.execute
alternative_tasks(c, provs, order) ==
    LET pairs == alternative_pairs(c, order)
    IN  [k \in 1..(Len(pairs) * Len(provs)) |->
            Call(provs[((k - 1) % Len(provs)) + 1],
                 [c EXCEPT !.origin = pairs[((k - 1) \div Len(provs)) + 1][1],
                           !.destination = pairs[((k - 1) \div Len(provs)) + 1][2]])]

\* all_tasks of SplitTicketsStrategy._search_split_route
split_route_tasks(c, provs, combination) ==
    LET first_leg_criteria ==
            [c EXCEPT !.origin = combination[1], !.destination = combination[2],
                      !.depart_dates = <<c.depart_dates[1]>>, !.return_dates = <<>>]
        second_leg_criteria ==
            [c EXCEPT !.origin = combination[2], !.destination = combination[3],
                      !.depart_dates = <<c.depart_dates[1]>>, !.return_dates = <<>>]
    IN  [i \in 1..Len(provs) |-> Call(provs[i], first_leg_criteria)]
        \o [i \in 1..Len(provs) |-> Call(provs[i], second_leg_criteria)]

\* what _search_split_route returns once all_tasks have settled
split_route_offers(calls, c) ==
    combine_legs(collect_lists(SubSeq(calls, 1, Len(calls) \div 2)),
                 collect_lists(SubSeq(calls, Len(calls) \div 2 + 1, Len(calls))),
                 c)

\* the (departure, return) dates of the requests one provider.search(c)
\* sends: AmadeusProvider.search sends one request for depart_dates[0] and
\* return_dates[0]; KiwiTequilaProvider.search sends one request per
\* departure date, each with return_dates[0]
date_queries(p, c) ==
    LET return_date == IF c.return_dates # <<>> THEN <<c.return_dates[1]>> ELSE <<>>
    IN  IF p = "Amadeus"
        THEN <<[depart |-> c.depart_dates[1], return |-> return_date]>>
        ELSE [i \in 1..Len(c.depart_dates) |->
                 [depart |-> c.depart_dates[i], return |-> return_date]]

(***************************************************************************)
(* application package: FlightStrategyService and the split-ticket search  *)
(* of FlightSearchService.                                                 *)
(***************************************************************************)
\* FlightStrategyService.AIRPORT_GROUPS
LEGACY_AIRPORT_GROUPS ==
    [g \in {"SAO", "RIO", "LON", "PAR", "NYC", "MIL", "ROM", "BCN", "BER"} |->
        CASE g = "SAO" -> {"GRU", "CGH", "VCP"}
          [] g = "RIO" -> {"GIG", "SDU"}
          [] g = "LON" -> {"LHR", "LGW", "STN", "LTN", "LCY", "SEN"}
          [] g = "PAR" -> {"CDG", "ORY", "BVA"}
          [] g = "NYC" -> {"JFK", "EWR", "LGA"}
          [] g = "MIL" -> {"MXP", "LIN", "BGY"}
          [] g = "ROM" -> {"FCO", "CIA"}
          [] g = "BCN" -> {"BCN", "GRO"}
          [] g = "BER" -> {"BER", "SXF"}]

\* FlightStrategyService.MAJOR_HUBS
LEGACY_MAJOR_HUBS ==
    {"LIS", "MAD", "IST", "CDG", "FRA", "LHR", "AMS", "DOH", "DXB", "MUC",
     "ZRH", "BCN", "FCO", "ATH", "VIE", "CPH", "ARN", "HEL", "WAW", "PRG"}

\* the order in which the dict AIRPORT_GROUPS is scanned: insertion order
LegacyGroupKeys == <<"SAO", "RIO", "LON", "PAR", "NYC", "MIL", "ROM", "BCN", "BER">>

\* FlightStrategyService.get_nearby_airports, as the set of the list it
\* returns; BCN is a key, and BER is a key and a member of its own group
get_nearby_airports(iata) ==
    IF iata \in DOMAIN LEGACY_AIRPORT_GROUPS THEN LEGACY_AIRPORT_GROUPS[iata]
    ELSE LET hits == SelectSeq(LegacyGroupKeys,
                               LAMBDA g : iata \in LEGACY_AIRPORT_GROUPS[g])
         IN  IF hits # <<>> THEN LEGACY_AIRPORT_GROUPS[hits[1]] ELSE {iata}

\* the first n elements of a list: list[:n]
Take(list, n) == SubSeq(list, 1, Min(Len(list), n))

\* the triples of get_hub_combinations for one origin and one destination,
\* in the iteration order of MAJOR_HUBS
hub_block(o, d, order) ==
    LET hubs == ListOf({h \in LEGACY_MAJOR_HUBS : h # o /\ h # d}, order)
    IN  [i \in 1..Len(hubs) |-> <<o, hubs[i], d>>]

\* FlightStrategyService.get_hub_combinations without its final slice
all_hub_combinations(origin, destination, order) ==
    LET origin_airports == ListOf(get_nearby_airports(origin), order)
        dest_airports == ListOf(get_nearby_airports(destination), order)
    IN  Flatten([k \in 1..(Len(origin_airports) * Len(dest_airports)) |->
            hub_block(origin_airports[((k - 1) \div Len(dest_airports)) + 1],
                      dest_airports[((k - 1) % Len(dest_airports)) + 1], order)])

\* FlightStrategyService.get_hub_combinations: combinations[:50]
get_hub_combinations(origin, destination, order) ==
    Take(all_hub_combinations(origin, destination, order), 50)

\* FlightStrategyService.calculate_route_efficiency, in hundredths
calculate_route_efficiency(origin, destination, via_hub) ==
    CASE via_hub \in {"CDG", "FRA"} -> 95
      [] via_hub \in {"LIS", "MAD", "LHR", "AMS", "MUC", "ZRH"} -> 90
      [] via_hub = "IST" -> 85
      [] via_hub \in {"DOH", "DXB"} -> 80
      [] OTHER -> 70

\* FlightStrategyService.filter_efficient_combinations, min_efficiency in
\* hundredths
filter_efficient_combinations(combinations, min_efficiency) ==
    SelectSeq(combinations,
              LAMBDA t : calculate_route_efficiency(t[1], t[3], t[2]) >= min_efficiency)

\* FlightSearchService._combine_split_tickets (application package);
\* sorted(offers, key=price_total)[0] is the first offer of the lowest price
combine_split_tickets(first_offers, second_offers, original_criteria) ==
    IF first_offers = <<>> \/ second_offers = <<>> THEN <<>>
    ELSE LET best_first == min_by_price(first_offers)
             best_second == min_by_price(second_offers)
             total_price == best_first.price_total + best_second.price_total
         IN  IF Truthy(original_criteria.max_price)
                /\ total_price > original_criteria.max_price[1]
             THEN <<>>
             ELSE <<[provider |-> "SplitTickets",
                     price_total |-> total_price,
                     currency |-> best_first.currency,
                     baggage_included |-> best_first.baggage_included
                                            /\ best_second.baggage_included,
                     cabin_class |-> original_criteria.cabin_class,
                     segments |-> best_first.segments \o best_second.segments,
                     notes |-> "Bilhetes separados",
                     ai_score |-> NoScore]>>

\* what FlightSearchService._search_direct returns for one leg: the offer
\* of a provider that answers, nothing otherwise
search_direct(leg_criteria, responds) ==
    IF responds THEN <<ProviderOffer("Kiwi/Tequila", leg_criteria)>> ELSE <<>>

\* FlightSearchService._search_split_tickets (application package): the
\* _search_direct calls it issues and the offers it returns
search_split_tickets(c, order, responds) ==
    LET combinations == get_hub_combinations(c.origin, c.destination, order)
        efficient_combinations == filter_efficient_combinations(combinations, 70)
        tried == Take(efficient_combinations, 20)
        first_leg(t) == [c EXCEPT !.origin = t[1], !.destination = t[2],
                                  !.return_dates = <<>>]
        second_leg(t) == [c EXCEPT !.origin = t[2], !.destination = t[3],
                                   !.return_dates = <<>>]
    IN  [calls |-> Flatten([i \in 1..Len(tried) |->
                      <<first_leg(tried[i]), second_leg(tried[i])>>]),
         offers |-> Flatten([i \in 1..Len(tried) |->
                      combine_split_tickets(
                          search_direct(first_leg(tried[i]), responds),
                          search_direct(second_leg(tried[i]), responds), c)])]

\* SplitTicketsStrategy.execute for a round trip, and otherwise when every
\* provider answers alike: the provider calls it issues and what it returns
split_tickets_execute(c, provs, order, responds) ==
    IF is_round_trip(c) THEN [calls |-> <<>>, offers |-> <<>>]
    ELSE LET combos == limited_combinations(c, order)
             tasks(t) == split_route_tasks(c, provs, t)
             settled(t) ==
                [i \in 1..Len(tasks(t)) |->
                    Settle(tasks(t)[i],
                           [outcome |-> "returned",
                            offers |-> search_direct(tasks(t)[i].criteria, responds)])]
         IN  [calls |-> Flatten([i \in 1..Len(combos) |->
                           [k \in 1..Len(tasks(combos[i])) |->
                               tasks(combos[i])[k].criteria]]),
              offers |-> Flatten([i \in 1..Len(combos) |->
                           split_route_offers(settled(combos[i]), c)])]

\* FlightSearchService._search_alternative_airports (application package):
\* one _search_direct per pair other than the original one, each calling
\* every available provider
search_alternative_airports(c, provs, order) ==
    LET origin_airports == ListOf(get_nearby_airports(c.origin), order)
        dest_airports == ListOf(get_nearby_airports(c.destination), order)
        all == [k \in 1..(Len(origin_airports) * Len(dest_airports)) |->
                   <<origin_airports[((k - 1) \div Len(dest_airports)) + 1],
                     dest_airports[((k - 1) % Len(dest_airports)) + 1]>>]
        tasks == SelectSeq(all, LAMBDA pr :
                               ~(pr[1] = c.origin /\ pr[2] = c.destination))
    IN  Flatten([i \in 1..Len(tasks) |->
            [k \in 1..Len(provs) |->
                Call(provs[k], [c EXCEPT !.origin = tasks[i][1],
                                         !.destination = tasks[i][2]])]])

(***************************************************************************)
(* The helpers of the strategies applied to bounded inputs (FnSpec).       *)
(***************************************************************************)
SplitCriteriaSpace ==
    { [origin |-> o, destination |-> d, depart_dates |-> <<D0>>,
       return_dates |-> rd, cabin_class |-> NoneStr,
       max_price |-> mp, max_stops |-> <<>>] :
         o \in {"GIG", "CIA"}, d \in {"LIS", "ORY"},
         rd \in {<<>>, <<D1>>},
         mp \in {<<>>, <<15 * PriceScale>>} }

SplitArgs == { [kind |-> "split", responds |-> r] : r \in BOOLEAN }

\* a helper that returns a list and may issue searches
ReturnHelper(kind, name, list, calls) ==
    /\ fn_applied = "none"
    /\ fn_args.kind = kind
    /\ fn_applied' = name
    /\ fn_result' = list
    /\ fn_calls' = calls
    /\ fn_outcome' = "returned"
    /\ UNCHANGED <<criteria, orch_vars, fn_offers, fn_offer, fn_ref, fn_score,
                   fn_args, fn_order>>

CallSearchSplitTickets ==
    LET r == search_split_tickets(criteria, fn_order, fn_args.responds)
    IN  ReturnHelper("split", "search_split_tickets", r.offers, r.calls)

CallSplitTicketsExecute ==
    LET r == split_tickets_execute(criteria, <<"Kiwi/Tequila", "Amadeus">>,
                                   fn_order, fn_args.responds)
    IN  ReturnHelper("split", "split_tickets_execute", r.offers, r.calls)

\* offers of one leg: a cheap one with baggage, one as cheap without
\* baggage, the same priced in another currency, and a dear one
LegOffer(o, d, price, baggage, carrier) ==
    [provider |-> carrier, price_total |-> price, currency |-> "EUR",
     baggage_included |-> baggage, cabin_class |-> "ECONOMY",
     segments |-> <<Segment(o, d)>>, notes |-> NoneStr, ai_score |-> NoScore]

LegCatalog(o, d) ==
    { LegOffer(o, d, 3 * PriceScale, TRUE, "Kiwi/Tequila"),
      LegOffer(o, d, 3 * PriceScale, FALSE, "Amadeus"),
      [LegOffer(o, d, 3 * PriceScale, FALSE, "Amadeus") EXCEPT !.currency = "USD"],
      LegOffer(o, d, 9 * PriceScale, FALSE, "Kiwi/Tequila") }

LegSeqs(o, d) == UNION {[1..n -> LegCatalog(o, d)] : n \in 0..2}

CombineArgs ==
    { [kind |-> "combine", first_leg |-> f, second_leg |-> g] :
        f \in LegSeqs("GIG", "MAD"), g \in LegSeqs("MAD", "LIS") }

CombineCriteria ==
    { [NoCriteria EXCEPT !.max_price = mp] :
        mp \in {<<>>, <<0>>, <<10 * PriceScale>>, <<12 * PriceScale>>} }

CallCombineLegs ==
    ReturnHelper("combine", "combine_legs",
                 combine_legs(fn_args.first_leg, fn_args.second_leg, criteria), <<>>)

\* the SearchCriteria of the application package validates max_price > 0
CallCombineSplitTickets ==
    /\ criteria.max_price # <<0>>
    /\ ReturnHelper("combine", "combine_split_tickets",
                    combine_split_tickets(fn_args.first_leg, fn_args.second_leg,
                                          criteria),
                    <<>>)

HubArgs ==
    { [kind |-> "hubs", origin |-> o, destination |-> d] :
        o \in {"GIG", "GRO", "CIA", "LIS"}, d \in {"LIS", "ORY", "FCO"} }

\* list(a set of triples that share origin and destination)
ListOfTriples(triples, order) ==
    LET hubs == ListOf({t[2] : t \in triples}, order)
    IN  [i \in 1..Len(hubs) |->
            CHOOSE t \in triples : t[2] = hubs[i]]

CallGenerateHubCombinations ==
    ReturnHelper("hubs", "generate_hub_combinations",
                 ListOfTriples(generate_hub_combinations(fn_args.origin,
                                                         fn_args.destination),
                               fn_order),
                 <<>>)

CallGetHubCombinations ==
    ReturnHelper("hubs", "get_hub_combinations",
                 get_hub_combinations(fn_args.origin, fn_args.destination, fn_order),
                 <<>>)

\* what one HTTP request of a provider meets: a good answer, a failure that
\* raises inside the request (network error, timeout, non-2xx status), a
\* payload that does not parse
HttpOutcomes == {"ok", "error", "malformed"}

\* the surroundings of one provider.search: credentials configured or not,
\* the token request succeeding or not, the outcome of each search request
ProviderArgs ==
    { [kind |-> "provider", configured |-> cf, token_ok |-> tk, http |-> h] :
        cf \in BOOLEAN, tk \in BOOLEAN, h \in [1..2 -> HttpOutcomes] }

ProviderCriteria ==
    { [NoCriteria EXCEPT !.depart_dates = dd] : dd \in {<<>>, <<D0>>, <<D0, D1>>} }

Returned(offers) == [outcome |-> "returned", offers |-> offers]

Raised == [outcome |-> "raised", offers |-> <<>>]

\* the offers parsed from the answer to one request
request_offers(name, c, http) ==
    IF http = "ok" THEN <<ProviderOffer(name, c)>> ELSE <<>>

\* flight_ticker AmadeusProvider.search
amadeus_search(c, env) ==
    IF ~env.configured THEN Returned(<<>>)
    ELSE IF ~env.token_ok THEN Returned(<<>>)
    ELSE IF c.depart_dates = <<>> THEN Raised
    ELSE Returned(request_offers("Amadeus", c, env.http[1]))

\* flight_ticker KiwiTequilaProvider.search
kiwi_search(c, env) ==
    IF ~env.configured THEN Returned(<<>>)
    ELSE Returned(Flatten([i \in 1..Len(c.depart_dates) |->
                     request_offers("Kiwi/Tequila", c, env.http[i])]))

\* application package BaseFlightProvider.search, as AmadeusProvider
\* completes it: everything after is_available runs inside one try
base_search(c, env) ==
    IF ~env.configured THEN Returned(<<>>)
    ELSE IF c.depart_dates = <<>> THEN Returned(<<>>)
    ELSE IF ~env.token_ok THEN Returned(<<>>)
    ELSE Returned(request_offers("Amadeus", c, env.http[1]))

\* a provider search that returns or raises
ProviderReturns(name, r) ==
    /\ fn_applied = "none"
    /\ fn_args.kind = "provider"
    /\ fn_applied' = name
    /\ fn_result' = r.offers
    /\ fn_outcome' = r.outcome
    /\ UNCHANGED <<criteria, orch_vars, fn_offers, fn_offer, fn_ref, fn_score,
                   fn_args, fn_order, fn_calls>>

CallAmadeusSearch == ProviderReturns("amadeus_search", amadeus_search(criteria, fn_args))

CallKiwiSearch == ProviderReturns("kiwi_search", kiwi_search(criteria, fn_args))

CallBaseSearch == ProviderReturns("base_search", base_search(criteria, fn_args))

\* the key of best_offer: x.ai_score or 0.0
ai_score_or_zero(x) == IF x.ai_score = NoScore THEN RInt(0) ELSE x.ai_score

\* SearchResult.best_offer: max() returns the first offer of the highest
\* key; None is <<>>
best_offer(offers) ==
    IF offers = <<>> THEN <<>>
    ELSE <<offers[CHOOSE i \in 1..Len(offers) :
                /\ \A j \in 1..Len(offers) :
                      RLeq(ai_score_or_zero(offers[j]), ai_score_or_zero(offers[i]))
                /\ \A j \in 1..(i - 1) :
                      RLess(ai_score_or_zero(offers[j]), ai_score_or_zero(offers[i]))]>>

\* SearchResult.cheapest_offer: min() returns the first offer of the lowest
\* price; None is <<>>
cheapest_offer(offers) ==
    IF offers = <<>> THEN <<>> ELSE <<min_by_price(offers)>>

\* the offers of a SearchResult: scored or not, two prices, two providers
ResultOffers ==
    { [BaseOffer EXCEPT !.price_total = p, !.ai_score = sc] :
        p \in {10 * PriceScale, 20 * PriceScale},
        sc \in {NoScore, RInt(0), RInt(50), Rat(161, 2)} }

ResultArgs ==
    { [kind |-> "result", offers |-> os] :
        os \in UNION {[1..n -> ResultOffers] : n \in 0..MaxLen} }

CallBestOffer ==
    ReturnHelper("result", "best_offer", best_offer(fn_args.offers), <<>>)

CallCheapestOffer ==
    ReturnHelper("result", "cheapest_offer", cheapest_offer(fn_args.offers), <<>>)

\* airport codes: every code of the tables, the group keys, an unknown one
AirportArgs ==
    { [kind |-> "airport", code |-> c] :
        c \in {CodeOrderA[i] : i \in 1..Len(CodeOrderA)}
              \cup DOMAIN AIRPORT_GROUPS \cup DOMAIN LEGACY_AIRPORT_GROUPS
              \cup {"XXX"} }

CallGetAlternativeAirports ==
    ReturnHelper("airport", "get_alternative_airports",
                 get_alternative_airports(fn_args.code), <<>>)

CallGetNearbyAirports ==
    ReturnHelper("airport", "get_nearby_airports",
                 get_nearby_airports(fn_args.code), <<>>)

\* Inputs of the date expanders: a padded and an unpadded date, the last
\* two dates datetime holds, and a string that is no date.
DateArgs ==
    {[kind |-> "dates", base |-> b, days_before |-> x, days_after |-> y] :
        b \in {D0, DateStr(100, "unpadded"), DateStr(DateMax - 1, "padded"),
               DateStr(DateMax, "padded"), Garbage},
        x \in 0..DaysRange, y \in 0..DaysRange}

\* Inputs of _expand_month: a month of 30 days, the last month, no month
MonthArgs ==
    {[kind |-> "month", month |-> m] :
        m \in {MonthStr(120, 30, "ok"), MonthStr(DateMax - 30, 31, "ok"),
               MonthStr(0, 0, "garbage")}}

ReturnDates(kind, name, r) ==
    /\ fn_applied = "none"
    /\ fn_args.kind = kind
    /\ fn_applied' = name
    /\ fn_result' = r.dates
    /\ fn_outcome' = r.outcome
    /\ UNCHANGED <<criteria, orch_vars, fn_offers, fn_offer, fn_ref, fn_score,
                   fn_args, fn_order, fn_calls>>

CallExpandFlexibleDates ==
    ReturnDates("dates", "expand_flexible_dates",
                expand_flexible_dates(fn_args.base, fn_args.days_before,
                                      fn_args.days_after))

\* _expand_dates has one days_range for both sides
CallExpandDates ==
    /\ fn_args.kind = "dates"
    /\ fn_args.days_before = fn_args.days_after
    /\ ReturnDates("dates", "expand_dates",
                   expand_dates_call(fn_args.base, fn_args.days_before))

CallExpandMonth ==
    ReturnDates("month", "expand_month", expand_month(fn_args.month))

\* Inputs of the alternative-airport searches: airports of a group (LHR
\* of the largest), the key of a group, airports of no group; one or two
\* providers
AltCriteria ==
    { [NoCriteria EXCEPT !.origin = o, !.destination = d, !.depart_dates = <<D0>>] :
        o \in {"GIG", "RIO", "MAD", "BER", "GRO", "LHR"},
        d \in {"LIS", "ORY", "SXF"} }

AltArgs ==
    { [kind |-> "alt", provs |-> p] : p \in ProviderLists \ {<<>>} }

\* every gathered call answered with one offer
all_answered(calls) ==
    [i \in 1..Len(calls) |->
        Settle(calls[i], [outcome |-> "returned",
                          offers |-> <<ProviderOffer(calls[i].provider,
                                                     calls[i].criteria)>>])]

CallAlternativeAirportsExecute ==
    LET tasks == alternative_tasks(criteria, fn_args.provs, fn_order)
    IN  ReturnHelper("alt", "alternative_airports_execute",
                     collect_lists(all_answered(tasks)), tasks)

CallSearchAlternativeAirports ==
    LET tasks == search_alternative_airports(criteria, fn_args.provs, fn_order)
    IN  ReturnHelper("alt", "search_alternative_airports",
                     collect_lists(all_answered(tasks)), tasks)

\* The functions applied to bounded inputs: one input family per group of
\* functions, each function applied once.
FnInit ==
    /\ OrchIdle
    /\ fn_applied = "none"
    /\ fn_result = <<>>
    /\ fn_score = NoScore
    /\ fn_calls = <<>>
    /\ fn_outcome = "none"
    /\ \/ /\ fn_offers \in OfferSeqs
          /\ criteria \in FilterCriteria
          /\ fn_offer = <<>>
          /\ fn_ref = RInt(0)
          /\ fn_args = NoArgs
          /\ fn_order = <<>>
       \/ /\ fn_offers = <<>>
          /\ criteria = NoCriteria
          /\ fn_offer \in {<<o>> : o \in ScoredOfferSpace}
          /\ fn_ref \in ReferencePrices
          /\ fn_args = NoArgs
          /\ fn_order = <<>>
       \/ /\ fn_offers = <<>>
          /\ criteria \in SplitCriteriaSpace
          /\ fn_offer = <<>>
          /\ fn_ref = RInt(0)
          /\ fn_args \in SplitArgs
          /\ fn_order \in {CodeOrderA, CodeOrderB}
       \/ /\ fn_offers = <<>>
          /\ criteria \in CombineCriteria
          /\ fn_offer = <<>>
          /\ fn_ref = RInt(0)
          /\ fn_args \in CombineArgs
          /\ fn_order = <<>>
       \/ /\ fn_offers = <<>>
          /\ criteria = NoCriteria
          /\ fn_offer = <<>>
          /\ fn_ref = RInt(0)
          /\ fn_args \in HubArgs
          /\ fn_order \in {CodeOrderA, CodeOrderB}
       \/ /\ fn_offers = <<>>
          /\ criteria \in ProviderCriteria
          /\ fn_offer = <<>>
          /\ fn_ref = RInt(0)
          /\ fn_args \in ProviderArgs
          /\ fn_order = <<>>
       \/ /\ fn_offers = <<>>
          /\ criteria = NoCriteria
          /\ fn_offer = <<>>
          /\ fn_ref = RInt(0)
          /\ fn_args \in ResultArgs
          /\ fn_order = <<>>
       \/ /\ fn_offers = <<>>
          /\ criteria = NoCriteria
          /\ fn_offer = <<>>
          /\ fn_ref = RInt(0)
          /\ fn_args \in AirportArgs
          /\ fn_order = <<>>
       \/ /\ fn_offers = <<>>
          /\ criteria = NoCriteria
          /\ fn_offer = <<>>
          /\ fn_ref = RInt(0)
          /\ fn_args \in DateArgs \cup MonthArgs
          /\ fn_order = <<>>
       \/ /\ fn_offers = <<>>
          /\ criteria \in AltCriteria
          /\ fn_offer = <<>>
          /\ fn_ref = RInt(0)
          /\ fn_args \in AltArgs
          /\ fn_order \in {CodeOrderA, CodeOrderB}

FnNext ==
    \/ CallDeduplicateOffers
    \/ CallRemoveDuplicates
    \/ CallApplyFilters
    \/ CallLegacyApplyFilters
    \/ CallScoreOffers
    \/ CallSearchPipeline
    \/ CallRankOffers
    \/ CallCalculateScore
    \/ CallScoreOffer
    \/ CallSearchSplitTickets
    \/ CallSplitTicketsExecute
    \/ CallCombineLegs
    \/ CallCombineSplitTickets
    \/ CallGenerateHubCombinations
    \/ CallGetHubCombinations
    \/ CallAmadeusSearch
    \/ CallKiwiSearch
    \/ CallBaseSearch
    \/ CallBestOffer
    \/ CallCheapestOffer
    \/ CallGetAlternativeAirports
    \/ CallGetNearbyAirports
    \/ CallExpandFlexibleDates
    \/ CallExpandDates
    \/ CallExpandMonth
    \/ CallAlternativeAirportsExecute
    \/ CallSearchAlternativeAirports

FnSpec == FnInit /\ [][FnNext]_vars

(***************************************************************************)
(* FlightSearchService.search (flight_ticker/application/services.py).     *)
(***************************************************************************)
\* searches from GIG with any number of stops, from MAD non-stop only
SearchCriteriaSpace ==
    { [origin |-> o, destination |-> "LIS", depart_dates |-> dd,
       return_dates |-> rd, cabin_class |-> NoneStr,
       max_price |-> <<25 * PriceScale>>,
       max_stops |-> IF o = "MAD" THEN <<0>> ELSE <<>>] :
         o \in {"GIG", "MAD"},
         dd \in {<<>>, <<D0>>, <<Garbage>>},
         rd \in {<<>>, <<D1>>} }

Init ==
    /\ FnIdle
    /\ criteria \in SearchCriteriaSpace
    /\ providers \in ProviderLists
    /\ hub_order \in {CodeOrderA, CodeOrderB}
    /\ pc = "idle"
    /\ strategy_state = [s \in StrategyNames |-> "absent"]
    /\ strategy_result = [s \in StrategyNames |-> <<>>]
    /\ flex_calls = <<>>
    /\ flex_offers = <<>>
    /\ alt_calls = <<>>
    /\ split_i = 0
    /\ split_calls = <<>>
    /\ split_offers = <<>>
    /\ all_offers = <<>>
    /\ result = <<>>
    /\ overtaken = FALSE
    /\ split_failed = FALSE

Settled(state) == state \in {"absent", "returned", "raised"}

\* a gather that is done as soon as one task has raised (what
\* asyncio.wait(..., return_when=FIRST_EXCEPTION) does)
gather_first_exception(states) ==
    \/ \E s \in StrategyNames : states[s] = "raised"
    \/ \A s \in StrategyNames : Settled(states[s])

\* asyncio.gather(*strategy_tasks, return_exceptions=True) is done when
\* every task is
gather_done(states) == \A s \in StrategyNames : Settled(states[s])

\* a gather without return_exceptions raises the first exception
gather_propagates(states) == \E s \in StrategyNames : states[s] = "raised"

\* with return_exceptions=True the exceptions come back as results: the
\* await raises nothing
gather_raises(states) == FALSE

\* the criteria of a sequence of provider calls
CriteriaOf(calls) == [i \in 1..Len(calls) |-> calls[i].criteria]

\* the caller's criteria if the strategies assigned to the caller's object
\* itself instead of a copy: it would read as the last derived criteria
caller_criteria_aliased(c, copies) ==
    IF copies = <<>> THEN c ELSE copies[Len(copies)]

\* the caller's criteria after "x = criteria.model_copy()" and the
\* assignments to the fields of x that make the derived criteria `copies`:
\* model_copy returns a new object and the assignments rebind its fields,
\* so the caller's object is as it was
caller_criteria_after(c, copies) == c

\* search, lines 30-31: the strategy coroutines are created and gathered;
\* each task runs up to its first await of a provider
StartSearch ==
    /\ pc = "idle"
    /\ fn_applied = "none" /\ fn_offers = <<>> /\ fn_offer = <<>>
    /\ pc' = "gather"
    /\ LET active == create_strategies(providers)
           flex_up == "flexible_dates" \in active
           alt_up == "alternative_airports" \in active
           split_up == "split_tickets" \in active
           flex_fails == flex_up /\ flex_raises_at_start(criteria)
           tasks == IF alt_up THEN alternative_tasks(criteria, providers, hub_order)
                    ELSE <<>>
           combos == limited_combinations(criteria, hub_order)
           split_empty == split_up /\ (is_round_trip(criteria) \/ combos = <<>>)
           split_fails == split_up /\ ~split_empty /\ criteria.depart_dates = <<>>
           flex_first == IF flex_up /\ ~flex_fails
                         THEN <<Call(providers[1], expanded_criteria(criteria))>>
                         ELSE <<>>
           split_first == IF split_up /\ ~split_empty /\ ~split_fails
                          THEN split_route_tasks(criteria, providers, combos[1])
                          ELSE <<>>
       IN  /\ flex_calls' = flex_first
           /\ alt_calls' = tasks
           /\ split_i' = IF split_up /\ ~split_empty /\ ~split_fails THEN 1 ELSE 0
           /\ split_calls' = split_first
           /\ criteria' = caller_criteria_after(criteria,
                              CriteriaOf(flex_first) \o CriteriaOf(tasks)
                                  \o CriteriaOf(split_first))
           /\ strategy_state' =
                [s \in StrategyNames |->
                    IF s \notin active THEN "absent"
                    ELSE CASE s = "flexible_dates" ->
                                 IF flex_fails THEN "raised" ELSE "running"
                           [] s = "alternative_airports" ->
                                 IF tasks = <<>> THEN "returned" ELSE "running"
                           [] s = "split_tickets" ->
                                 IF split_empty THEN "returned"
                                 ELSE IF split_fails THEN "raised" ELSE "running"]
    /\ UNCHANGED <<providers, hub_order, strategy_result, flex_offers,
                   split_offers, all_offers, result, overtaken, split_failed,
                   fn_vars>>

\* FlexibleDatesStrategy.execute, lines 27-32: the awaited provider.search
\* settles; an exception leaves execute, a list is added and the next
\* provider is awaited
FlexCallSettles ==
    /\ strategy_state["flexible_dates"] = "running"
    /\ \E r \in Responses(flex_calls[Len(flex_calls)]) :
          LET calls == [flex_calls EXCEPT
                           ![Len(flex_calls)] = Settle(flex_calls[Len(flex_calls)], r)]
          IN  IF r.outcome = "raised"
              THEN /\ flex_calls' = calls
                   /\ strategy_state' =
                        [strategy_state EXCEPT !["flexible_dates"] = "raised"]
                   /\ UNCHANGED <<flex_offers, strategy_result>>
              ELSE /\ flex_offers' = flex_offers \o r.offers
                   /\ IF Len(flex_calls) < Len(providers)
                      THEN /\ flex_calls' =
                                Append(calls, Call(providers[Len(flex_calls) + 1],
                                                   expanded_criteria(criteria)))
                           /\ UNCHANGED <<strategy_state, strategy_result>>
                      ELSE /\ flex_calls' = calls
                           /\ strategy_state' =
                                [strategy_state EXCEPT !["flexible_dates"] = "returned"]
                           /\ strategy_result' =
                                [strategy_result EXCEPT
                                    !["flexible_dates"] = flex_offers \o r.offers]
    /\ UNCHANGED <<criteria, providers, hub_order, pc, alt_calls, split_i,
                   split_calls, split_offers, all_offers, result, overtaken,
                   split_failed, fn_vars>>

\* AlternativeAirportsStrategy.execute, lines 52-60: the gathered provider
\* call i settles with r; when the last one has, the lists are collected
AltSettles(i, r) ==
    LET calls == [alt_calls EXCEPT ![i] = Settle(alt_calls[i], r)]
    IN  /\ alt_calls' = calls
        /\ IF Pending(calls) = {}
           THEN /\ strategy_state' =
                     [strategy_state EXCEPT !["alternative_airports"] = "returned"]
                /\ strategy_result' =
                     [strategy_result EXCEPT
                         !["alternative_airports"] = collect_lists(calls)]
           ELSE UNCHANGED <<strategy_state, strategy_result>>
        /\ UNCHANGED <<criteria, providers, hub_order, pc, flex_calls, flex_offers,
                       split_i, split_calls, split_offers, all_offers, result,
                       split_failed, fn_vars>>

AltCallSettles ==
    /\ strategy_state["alternative_airports"] = "running"
    /\ \E i \in Pending(alt_calls) : \E r \in Responses(alt_calls[i]) :
          AltSettles(i, r) /\ UNCHANGED overtaken

\* a gather of the leg calls that raises the first exception among them
split_route_propagates(calls) ==
    \E i \in 1..Len(calls) : calls[i].outcome = "raised"

\* _search_split_route, line 85: asyncio.gather(*all_tasks,
\* return_exceptions=True) hands the exceptions back as results, the await
\* raises nothing
split_route_raises(calls) == FALSE

\* SplitTicketsStrategy.execute, lines 36-42, and _search_split_route,
\* lines 80-103: the gathered leg call i settles with r; when the last one
\* has, the legs are combined and the next combination is searched
SplitSettles(i, r) ==
    LET calls == [split_calls EXCEPT ![i] = Settle(split_calls[i], r)]
        combos == limited_combinations(criteria, hub_order)
        offers == split_offers \o split_route_offers(calls, criteria)
    IN  /\ IF Pending(calls) # {}
           THEN /\ split_calls' = calls
                /\ UNCHANGED <<criteria, split_i, split_offers, strategy_state,
                               strategy_result>>
           ELSE IF split_route_raises(calls)
           THEN /\ split_calls' = calls
                /\ strategy_state' =
                     [strategy_state EXCEPT !["split_tickets"] = "raised"]
                /\ UNCHANGED <<criteria, split_i, split_offers, strategy_result>>
           ELSE /\ split_offers' = offers
                /\ IF split_i < Len(combos)
                   THEN /\ split_i' = split_i + 1
                        /\ split_calls' =
                             split_route_tasks(criteria, providers, combos[split_i + 1])
                        /\ criteria' = caller_criteria_after(criteria,
                               CriteriaOf(split_route_tasks(criteria, providers,
                                                            combos[split_i + 1])))
                        /\ UNCHANGED <<strategy_state, strategy_result>>
                   ELSE /\ split_calls' = calls
                        /\ UNCHANGED <<criteria, split_i>>
                        /\ strategy_state' =
                             [strategy_state EXCEPT !["split_tickets"] = "returned"]
                        /\ strategy_result' =
                             [strategy_result EXCEPT !["split_tickets"] = offers]
        /\ UNCHANGED <<providers, hub_order, pc, flex_calls, flex_offers,
                       alt_calls, all_offers, result, fn_vars>>

SplitCallSettles ==
    /\ strategy_state["split_tickets"] = "running"
    /\ \E i \in Pending(split_calls) : \E r \in Responses(split_calls[i]) :
          SplitSettles(i, r) /\ UNCHANGED <<overtaken, split_failed>>

\* a merge that takes the strategies from the last to the first
merge_results_reversed(states, results) ==
    Flatten([i \in 1..Len(Strategies) |->
                IF states[Strategies[Len(Strategies) + 1 - i]] = "returned"
                THEN results[Strategies[Len(Strategies) + 1 - i]]
                ELSE <<>>])

\* search, lines 34-36: the lists among strategy_results, in strategy order
merge_results(states, results) ==
    Flatten([i \in 1..Len(Strategies) |->
                IF states[Strategies[i]] = "returned" THEN results[Strategies[i]]
                ELSE <<>>])

\* search, lines 31-52: the gather is done; merge, deduplicate, filter,
\* score, return the SearchResult
GatherReturns ==
    /\ pc = "gather"
    /\ gather_done(strategy_state)
    /\ IF gather_raises(strategy_state)
       THEN /\ pc' = "raised"
            /\ UNCHANGED <<all_offers, result>>
       ELSE LET merged == merge_results(strategy_state, strategy_result)
                unique_offers == deduplicate_offers(merged)
                filtered_offers == apply_filters(unique_offers, criteria)
                scored_offers == score_offers(filtered_offers)
            IN  /\ all_offers' = merged
                /\ result' = <<[offers |-> scored_offers,
                                search_criteria |-> criteria,
                                total_found |-> Len(scored_offers)]>>
                /\ pc' = "done"
    /\ UNCHANGED <<criteria, providers, hub_order, strategy_state, strategy_result,
                   flex_calls, flex_offers, alt_calls, split_i, split_calls,
                   split_offers, overtaken, split_failed, fn_vars>>

Next ==
    \/ StartSearch
    \/ FlexCallSettles
    \/ AltCallSettles
    \/ SplitCallSettles
    \/ GatherReturns

Spec == Init /\ [][Next]_vars

\* the step of GatherReturns as the event loop sees it: the gather future
\* is done and the coroutine of search is resumed
SearchResumes ==
    /\ pc = "gather"
    /\ gather_done(strategy_state)
    /\ pc' \in {"done", "raised"}

\* one iteration order of the sets is enough where only the scheduling of
\* the tasks matters
FairInit == Init /\ hub_order = CodeOrderA

\* the event loop resumes search once the gather future is done
FairSpec == FairInit /\ [][Next]_vars /\ WF_pc(SearchResumes)

(***************************************************************************)
(* The search with its history: which calls settled out of order, whether  *)
(* a call of a finished hub combination raised.                            *)
(***************************************************************************)
\* AltCallSettles, noting a call that settles while an earlier call of the
\* same gather is pending
AltCallSettlesNoted ==
    /\ strategy_state["alternative_airports"] = "running"
    /\ \E i \in Pending(alt_calls) : \E r \in Responses(alt_calls[i]) :
          /\ AltSettles(i, r)
          /\ overtaken' = (overtaken \/ \E j \in Pending(alt_calls) : j < i)

\* SplitCallSettles, noting the same and a raised call among the calls of a
\* combination that is followed by another one
SplitCallSettlesNoted ==
    /\ strategy_state["split_tickets"] = "running"
    /\ \E i \in Pending(split_calls) : \E r \in Responses(split_calls[i]) :
          /\ SplitSettles(i, r)
          /\ overtaken' = (overtaken \/ \E j \in Pending(split_calls) : j < i)
          /\ split_failed' =
                (\/ split_failed
                 \/ /\ Pending(split_calls) = {i}
                    /\ split_i < Len(limited_combinations(criteria, hub_order))
                    /\ \/ r.outcome = "raised"
                       \/ split_route_propagates(split_calls))

HistNext ==
    \/ StartSearch
    \/ FlexCallSettles
    \/ AltCallSettlesNoted
    \/ SplitCallSettlesNoted
    \/ GatherReturns

\* one iteration order of the sets, as in FairInit
HistInit == Init /\ hub_order = CodeOrderA

HistSpec == HistInit /\ [][HistNext]_vars


(***************************************************************************)
(* Properties of the pipeline functions (checked under FnSpec).            *)
(***************************************************************************)
\* the duplicate key of the specification: provider name, route summary,
\* price rounded to 2 decimals, currency
DuplicateKey(offer) ==
    <<offer.provider, route_summary(offer), Round2(offer.price_total),
      offer.currency>>

\* the offers of a list that are the first to carry their duplicate key
FirstOccurrences(offers) ==
    LET keep == {j \in 1..Len(offers) :
                    \A i \in 1..(j - 1) :
                        DuplicateKey(offers[i]) # DuplicateKey(offers[j])}
        F[j \in 0..Len(offers)] ==
            IF j = 0 THEN <<>>
            ELSE IF j \in keep THEN Append(F[j - 1], offers[j]) ELSE F[j - 1]
    IN  F[Len(offers)]

\* the score an offer is ordered by: 0 when it has none
ScoreOrZero(offer) ==
    IF offer.ai_score = NoScore THEN RInt(0) ELSE offer.ai_score

\* C4: _deduplicate_offers collapses two offers if and only if they have
\* the same provider, route summary, 2-decimal price and currency.
C4_DuplicateIffSameKey ==
    (fn_applied = "deduplicate_offers" /\ Len(fn_offers) = 2)
        => (Len(fn_result) = 1
              <=> DuplicateKey(fn_offers[1]) = DuplicateKey(fn_offers[2]))

\* C5: the deduplication output is the subsequence of the input made of
\* the first offer of every duplicate key, in input order.
C5_FirstOccurrenceWins ==
    fn_applied = "deduplicate_offers" => fn_result = FirstOccurrences(fn_offers)

\* C6: deduplicating a deduplicated sequence changes nothing.
C6_DedupIdempotent ==
    /\ fn_applied = "deduplicate_offers"
          => deduplicate_offers(fn_result) = fn_result
    /\ fn_applied = "remove_duplicates"
          => remove_duplicates(fn_result) = fn_result

\* C6 witness: a deduplication that dropped an offer and kept two.
C6_Witness ==
    /\ fn_applied = "deduplicate_offers"
    /\ Len(fn_result) = 2
    /\ Len(fn_offers) = 3
    /\ fn_offers[1] = fn_offers[2]

\* C7: the filter returns exactly the offers within max_price when it is
\* set and within max_stops when it is set.
C7_FilterEnforcesSetConstraints ==
    fn_applied = "apply_filters"
        => fn_result =
             SelectSeq(fn_offers, LAMBDA o :
                 /\ criteria.max_price # <<>> => o.price_total <= criteria.max_price[1]
                 /\ criteria.max_stops # <<>> => total_stops(o) <= criteria.max_stops[1])

\* C8: max-price then max-stops equals max-stops then max-price, and both
\* equal what _apply_filters returned.
C8_FiltersCommute ==
    fn_applied \in {"apply_filters", "legacy_apply_filters"}
        => /\ filter_max_stops(filter_max_price(fn_offers, criteria), criteria)
                = filter_max_price(filter_max_stops(fn_offers, criteria), criteria)
           /\ filter_max_price(filter_max_stops(fn_offers, criteria), criteria)
                = fn_result

\* C8 witness: both constraints are in force, one offer fails only the
\* price test, a later one only the stops test, and one passes both.
C8_Witness ==
    /\ fn_applied = "apply_filters"
    /\ Truthy(criteria.max_price)
    /\ criteria.max_stops # <<>>
    /\ fn_result # <<>>
    /\ \E i, j \in 1..Len(fn_offers) :
          /\ i < j
          /\ fn_offers[i].price_total > criteria.max_price[1]
          /\ total_stops(fn_offers[i]) <= criteria.max_stops[1]
          /\ fn_offers[j].price_total <= criteria.max_price[1]
          /\ total_stops(fn_offers[j]) > criteria.max_stops[1]

\* C9: the ranked sequence is in descending score order, equal scores in
\* ascending price order, a missing score counting as 0.
C9_RankedOrder ==
    fn_applied \in {"score_offers", "rank_offers"}
        => \A i, j \in 1..Len(fn_result) :
              i < j =>
                 \/ RLess(ScoreOrZero(fn_result[j]), ScoreOrZero(fn_result[i]))
                 \/ /\ ScoreOrZero(fn_result[i]) = ScoreOrZero(fn_result[j])
                    /\ fn_result[i].price_total <= fn_result[j].price_total

\* C9 witness: two offers of equal score, the dearer first in the input,
\* the cheaper first in the ranked output.
C9_Witness ==
    /\ fn_applied = "score_offers"
    /\ \E i, j \in 1..Len(fn_result) : \E a, b \in 1..Len(fn_offers) :
          /\ i < j
          /\ a < b
          /\ fn_result[i].ai_score = fn_result[j].ai_score
          /\ fn_result[i].price_total < fn_result[j].price_total
          /\ fn_offers[a] = [fn_result[j] EXCEPT !.ai_score = NoScore]
          /\ fn_offers[b] = [fn_result[i] EXCEPT !.ai_score = NoScore]

\* C10: every ranked offer has a score, and every score lies in 0..100.
C10_ScoreBounds ==
    /\ fn_applied \in {"score_offers", "rank_offers"}
          => \A i \in 1..Len(fn_result) :
                /\ fn_result[i].ai_score # NoScore
                /\ RLeq(RInt(0), fn_result[i].ai_score)
                /\ RLeq(fn_result[i].ai_score, RInt(100))
    /\ fn_applied \in {"calculate_score", "score_offer"}
          => /\ RLeq(RInt(0), fn_score)
             /\ RLeq(fn_score, RInt(100))

\* C10 witness: a free offer ranked with dearer ones, scored above 0.
C10_Witness ==
    /\ fn_applied = "score_offers"
    /\ Len(fn_result) >= 2
    /\ \E i \in 1..Len(fn_result) :
          /\ fn_result[i].price_total = 0
          /\ fn_result[i].ai_score # NoScore
          /\ RLess(RInt(0), fn_result[i].ai_score)


\* C11: with the reference price fixed, of two offers that differ only in
\* price, both prices positive and the cheaper one below the cap
\* (reference / price < 2), the cheaper offer has the strictly greater
\* score.
C11_CheaperScoresHigher ==
    fn_applied = "calculate_score" =>
        \A dearer \in ScoredOfferSpace :
            ( /\ dearer = [fn_offer[1] EXCEPT !.price_total = dearer.price_total]
              /\ 0 < fn_offer[1].price_total
              /\ fn_offer[1].price_total < dearer.price_total
              /\ RLess(RDiv(fn_ref, PriceRat(fn_offer[1].price_total)), RInt(2)) )
            => RLess(calculate_score(dearer, fn_ref), fn_score)

\* C12: for a round-trip criteria the split-ticket search, in the strategy
\* and in the application package, returns no offer and issues no provider
\* call.
C12_RoundTripSplitIsEmpty ==
    /\ ( /\ fn_applied \in {"split_tickets_execute", "search_split_tickets"}
         /\ is_round_trip(criteria) )
       => (fn_result = <<>> /\ fn_calls = <<>>)
    /\ ( /\ pc # "idle"
         /\ "split_tickets" \in create_strategies(providers)
         /\ is_round_trip(criteria) )
       => /\ strategy_state["split_tickets"] = "returned"
          /\ strategy_result["split_tickets"] = <<>>
          /\ split_calls = <<>>

\* the lowest price among the offers of a non-empty leg
LowestPrice(leg) ==
    CHOOSE p \in {leg[i].price_total : i \in 1..Len(leg)} :
        \A i \in 1..Len(leg) : p <= leg[i].price_total

AdvisoryNote(name) ==
    IF name = "combine_legs" THEN "BILHETES SEPARADOS" ELSE "Bilhetes separados"

\* C13: combining two legs yields nothing when a leg has no offer or when
\* the sum of the two lowest leg prices exceeds criteria.max_price;
\* otherwise exactly one offer: its price the sum of the lowest price of
\* each leg, its segments those of a lowest-priced first-leg offer followed
\* by those of a lowest-priced second-leg offer, its baggage flag the AND
\* of the two, its note the fixed advisory note.
C13_CombineLegs ==
    fn_applied \in {"combine_legs", "combine_split_tickets"} =>
        LET f == fn_args.first_leg
            g == fn_args.second_leg
        IN  IF f = <<>> \/ g = <<>> THEN fn_result = <<>>
            ELSE IF criteria.max_price # <<>>
                    /\ LowestPrice(f) + LowestPrice(g) > criteria.max_price[1]
                 THEN fn_result = <<>>
                 ELSE /\ Len(fn_result) = 1
                      /\ fn_result[1].price_total = LowestPrice(f) + LowestPrice(g)
                      /\ fn_result[1].notes = AdvisoryNote(fn_applied)
                      /\ \E i \in 1..Len(f), j \in 1..Len(g) :
                            /\ f[i].price_total = LowestPrice(f)
                            /\ g[j].price_total = LowestPrice(g)
                            /\ fn_result[1].segments = f[i].segments \o g[j].segments
                            /\ fn_result[1].baggage_included
                                 = (f[i].baggage_included /\ g[j].baggage_included)

ResultSet == {fn_result[i] : i \in 1..Len(fn_result)}

HubSetOf(name) ==
    IF name = "generate_hub_combinations" THEN MAJOR_HUBS ELSE LEGACY_MAJOR_HUBS

\* every triple the application package's generator walks through
AllLegacyTriples(origin, destination) ==
    {t \in (get_nearby_airports(origin) \X LEGACY_MAJOR_HUBS
              \X get_nearby_airports(destination)) : t[2] # t[1] /\ t[2] # t[3]}

\* C14 as stated: no produced triple has its hub equal to its origin or to
\* its destination, and every hub of the hub set that differs from the
\* origin and the destination asked for is the hub of a produced triple.
C14_HubsExcludedAndComplete ==
    fn_applied \in {"generate_hub_combinations", "get_hub_combinations"} =>
        /\ \A t \in ResultSet : t[2] # t[1] /\ t[2] # t[3]
        /\ \A h \in HubSetOf(fn_applied) :
              (h # fn_args.origin /\ h # fn_args.destination)
              => \E t \in ResultSet : t[2] = h

\* C14 amended: no produced triple has its hub equal to its origin or to
\* its destination; _generate_hub_combinations produces exactly one triple
\* (origin, hub, destination) for every hub that differs from both;
\* get_hub_combinations produces at most 50 triples, all over the nearby
\* airports of origin and destination, and every such triple when there
\* are at most 50 of them.
C14_HubsExcludedCompleteUpTo50 ==
    /\ fn_applied \in {"generate_hub_combinations", "get_hub_combinations"} =>
          \A t \in ResultSet : t[2] # t[1] /\ t[2] # t[3]
    /\ fn_applied = "generate_hub_combinations" =>
          /\ ResultSet = {<<fn_args.origin, h, fn_args.destination>> :
                             h \in MAJOR_HUBS \ {fn_args.origin, fn_args.destination}}
          /\ Len(fn_result) = Cardinality(ResultSet)
    /\ fn_applied = "get_hub_combinations" =>
          LET all == AllLegacyTriples(fn_args.origin, fn_args.destination)
          IN  /\ Len(fn_result) <= 50
              /\ Len(fn_result) = Cardinality(ResultSet)
              /\ ResultSet \subseteq all
              /\ Cardinality(all) <= 50 => ResultSet = all

C14_Witness ==
    /\ fn_applied = "generate_hub_combinations"
    /\ fn_args.origin \in MAJOR_HUBS
    /\ fn_args.destination \in MAJOR_HUBS
    /\ Len(fn_result) = Cardinality(MAJOR_HUBS) - 2

\* C15: a provider's search never raises past its boundary: whatever the
\* criteria (an empty departure-date list included) and whatever fails
\* inside (credentials, token, network, status, payload), it returns a
\* list of offers.
C15_ProviderNeverRaises ==
    fn_applied \in {"amadeus_search", "kiwi_search", "base_search"} =>
        fn_outcome = "returned"

\* C17: for a SearchResult with offers in any order, best_offer is an
\* offer of the highest score (no score counting as 0) and, among the
\* offers of that score, of the lowest price; cheapest_offer is an offer of
\* the lowest price; both are absent when there is no offer.
C17_BestAndCheapest ==
    /\ fn_applied \in {"best_offer", "cheapest_offer"} /\ fn_args.offers = <<>>
       => fn_result = <<>>
    /\ fn_applied = "best_offer" /\ fn_args.offers # <<>> =>
          /\ Len(fn_result) = 1
          /\ \E i \in 1..Len(fn_args.offers) : fn_args.offers[i] = fn_result[1]
          /\ \A j \in 1..Len(fn_args.offers) :
                /\ RLeq(ScoreOrZero(fn_args.offers[j]), ScoreOrZero(fn_result[1]))
                /\ ScoreOrZero(fn_args.offers[j]) = ScoreOrZero(fn_result[1])
                   => fn_result[1].price_total <= fn_args.offers[j].price_total
    /\ fn_applied = "cheapest_offer" /\ fn_args.offers # <<>> =>
          /\ Len(fn_result) = 1
          /\ \E i \in 1..Len(fn_args.offers) : fn_args.offers[i] = fn_result[1]
          /\ \A j \in 1..Len(fn_args.offers) :
                fn_result[1].price_total <= fn_args.offers[j].price_total

GroupsOf(name) ==
    IF name = "get_alternative_airports" THEN AIRPORT_GROUPS
    ELSE LEGACY_AIRPORT_GROUPS

\* C18: the airport group resolver always answers with a non-empty set:
\* the members of the group for a group key, else the members of the group
\* that holds the code, else the code alone; so a member of a group
\* resolves to the same set as the key of that group.
C18_ResolverTotal ==
    fn_applied \in {"get_alternative_airports", "get_nearby_airports"} =>
        LET groups == GroupsOf(fn_applied)
            code == fn_args.code
            holders == {g \in DOMAIN groups : code \in groups[g]}
        IN  /\ fn_result # {}
            /\ code \in DOMAIN groups => fn_result = groups[code]
            /\ code \notin DOMAIN groups /\ holders # {} =>
                  \E g \in holders : fn_result = groups[g]
            /\ code \notin DOMAIN groups /\ holders = {} => fn_result = {code}
            /\ \A g \in holders : fn_result = groups[g]

C18_Witness ==
    /\ fn_applied = "get_alternative_airports"
    /\ fn_args.code = "GRU"
    /\ fn_result = {"GRU", "CGH", "VCP"}
    /\ fn_result = AIRPORT_GROUPS["SAO"]

\* the window of a call of a date expander: the days_before + days_after + 1
\* consecutive dates around the base, in ascending order
Window(a) ==
    [i \in 1..(a.days_before + a.days_after + 1) |->
        Format(a.base.day - a.days_before + i - 1)]

DateExpanders == {"expand_flexible_dates", "expand_dates"}

RawInput(a) == IF a.kind = "month" THEN a.month ELSE a.base

Unparseable(a) ==
    IF a.kind = "month" THEN a.month.form = "garbage" ELSE ~CanParse(a.base)

\* C20: when a date or month string cannot be parsed, every expander
\* (expand_flexible_dates, _expand_dates, _expand_month) returns the
\* single-element list of the raw input; none raises or returns an empty
\* list.
C20_UnparseableGivesRawInput ==
    (fn_applied \in DateExpanders \cup {"expand_month"} /\ Unparseable(fn_args))
        => /\ fn_outcome = "returned"
           /\ fn_result = <<RawInput(fn_args)>>

\* the airports a code expands to in the alternative-airport search applied
ExpandOf(code) ==
    IF fn_applied = "search_alternative_airports"
    THEN get_nearby_airports(code) ELSE get_alternative_airports(code)

\* the pairs of the cross product other than the original pair
AlternatePairs ==
    (ExpandOf(criteria.origin) \X ExpandOf(criteria.destination))
        \ {<<criteria.origin, criteria.destination>>}

\* C23: the alternative-airports strategy queries every provider exactly
\* once for each pair of expand(origin) x expand(destination) other than
\* the original pair, with a copy of the criteria that differs in origin
\* and destination only; it never queries the original pair; when neither
\* code expands it issues no call and returns the empty list.
C23_AlternatePairsQueriedOnce ==
    fn_applied \in {"alternative_airports_execute", "search_alternative_airports"} =>
        /\ \A pr \in AlternatePairs : \A k \in 1..Len(fn_args.provs) :
              Cardinality({i \in 1..Len(fn_calls) :
                  /\ fn_calls[i].provider = fn_args.provs[k]
                  /\ fn_calls[i].criteria =
                        [criteria EXCEPT !.origin = pr[1], !.destination = pr[2]]}) = 1
        /\ \A i \in 1..Len(fn_calls) :
              <<fn_calls[i].criteria.origin, fn_calls[i].criteria.destination>>
                  \in AlternatePairs
        /\ Len(fn_calls) = Cardinality(AlternatePairs) * Len(fn_args.provs)
        /\ (ExpandOf(criteria.origin) = {criteria.origin}
            /\ ExpandOf(criteria.destination) = {criteria.destination})
              => fn_calls = <<>> /\ fn_result = <<>> /\ fn_outcome = "returned"

\* both codes are in a group and two providers were queried for the five
\* alternate pairs
C23_Witness ==
    /\ fn_applied = "alternative_airports_execute"
    /\ criteria.origin = "GIG" /\ criteria.destination = "ORY"
    /\ Len(fn_args.provs) = 2
    /\ Len(fn_calls) = 10
    /\ Len(fn_result) = 10

\* the max_combinations that the factory gives the split-ticket strategy
FactoryMaxCombinations == 15

\* the (origin, destination) pairs among the calls issued
PairsSearched ==
    {<<fn_calls[i].criteria.origin, fn_calls[i].criteria.destination>> :
        i \in 1..Len(fn_calls)}

\* C24: both strategies cap the provider calls of one search by a
\* max-combinations constant: SplitTicketsStrategy searches at most
\* max_combinations hub combinations, so issues at most
\* 2 x max_combinations x |providers| calls, and AlternativeAirportsStrategy
\* searches no more origin/destination pairs than the limit, whatever the
\* sizes of the airport groups.
C24_FanOutIsCapped ==
    /\ fn_applied = "split_tickets_execute"
          => Len(fn_calls) <= 2 * MaxCombinations * 2
    /\ fn_applied = "alternative_airports_execute"
          => Cardinality(PairsSearched) <= FactoryMaxCombinations

\* the hubs of a sequence of hub combinations
HubsOf(combinations) == {combinations[i][2] : i \in 1..Len(combinations)}

\* the hubs that the split-ticket search applied has searched: the
\* destinations of its first legs
HubsSearched ==
    {fn_calls[i].destination : i \in 1..Len(fn_calls)} \ {criteria.destination}

\* C25: the hub combinations kept by the truncation to max_combinations are
\* a function of origin, destination and hub set: the run has searched the
\* first max_combinations hubs in sorted order, the same hubs as a run
\* under any other iteration order of the set.
C25_TruncationIsDeterministic ==
    (fn_applied = "split_tickets_execute" /\ ~is_round_trip(criteria)) =>
        /\ HubsSearched = HubsOf(limited_combinations(criteria, CodeOrderA))
        /\ \A order \in {CodeOrderA, CodeOrderB} :
              HubsSearched = HubsOf(limited_combinations(criteria, order))

\* an offer as it was before it was scored
Unscored(offer) == [offer EXCEPT !.ai_score = NoScore]

\* how many offers of a list are `offer`, scores set aside
CountOf(offer, offers) ==
    Cardinality({i \in 1..Len(offers) : Unscored(offers[i]) = Unscored(offer)})

\* C28: the offers of the SearchResult contain no two offers of the same
\* deduplication signature, each satisfies the max_price and the max_stops
\* of the criteria when set, and they are a sub-multiset of the offers the
\* strategies returned: ranking only reorders and scores.
C28_ResultOffersInvariant ==
    fn_applied = "search_pipeline" =>
        /\ \A i, j \in 1..Len(fn_result) :
              i # j => signature(fn_result[i]) # signature(fn_result[j])
        /\ \A i \in 1..Len(fn_result) :
              /\ criteria.max_price # <<>>
                   => fn_result[i].price_total <= criteria.max_price[1]
              /\ criteria.max_stops # <<>>
                   => total_stops(fn_result[i]) <= criteria.max_stops[1]
        /\ \A i \in 1..Len(fn_result) :
              CountOf(fn_result[i], fn_result) <= CountOf(fn_result[i], fn_offers)

\* the first of the offers of a leg that have its lowest price
FirstCheapest(leg) ==
    SelectSeq(leg, LAMBDA o : o.price_total = LowestPrice(leg))[1]

\* C30: a combined split-ticket offer takes the currency of the cheapest
\* first-leg offer (the first one of the lowest price, chosen by price
\* alone) and its price is the plain sum of the two lowest leg prices, also
\* when the legs are priced in different currencies; the combination gives
\* nothing only when a leg has no offer or the sum exceeds max_price, never
\* because the currencies differ.
C30_CurrencyOfCheapestFirstLeg ==
    fn_applied \in {"combine_legs", "combine_split_tickets"} =>
        LET f == fn_args.first_leg
            g == fn_args.second_leg
        IN  /\ fn_result = <<>> =>
                 \/ f = <<>>
                 \/ g = <<>>
                 \/ /\ criteria.max_price # <<>>
                    /\ LowestPrice(f) + LowestPrice(g) > criteria.max_price[1]
            /\ fn_result # <<>> =>
                 /\ Len(fn_result) = 1
                 /\ fn_result[1].currency = FirstCheapest(f).currency
                 /\ fn_result[1].price_total = LowestPrice(f) + LowestPrice(g)

\* two legs whose cheapest offers are priced in EUR and in USD were
\* combined into one offer in EUR
C30_Witness ==
    /\ fn_applied = "combine_legs"
    /\ Len(fn_args.first_leg) = 2
    /\ fn_args.first_leg[1].currency = "EUR"
    /\ fn_args.first_leg[2].currency = "USD"
    /\ fn_args.first_leg[1].price_total = fn_args.first_leg[2].price_total
    /\ Len(fn_args.second_leg) = 1
    /\ fn_args.second_leg[1].currency = "USD"
    /\ Len(fn_result) = 1
    /\ fn_result[1].currency = "EUR"
    /\ fn_result[1].price_total = 6 * PriceScale

(***************************************************************************)
(* Properties of FlightSearchService.search (checked under Spec and        *)
(* FairSpec).                                                              *)
(***************************************************************************)
AllSettled == \A s \in StrategyNames : Settled(strategy_state[s])

\* what the calls of one strategy contribute when a call that raised counts
\* as a call that returned an empty list
IsolatedFlexOffers ==
    IF "flexible_dates" \in create_strategies(providers)
       /\ ~flex_raises_at_start(criteria)
    THEN collect_lists(flex_calls) ELSE <<>>

IsolatedAltOffers == collect_lists(alt_calls)

IsolatedSplitOffers ==
    IF strategy_state["split_tickets"] = "returned"
    THEN strategy_result["split_tickets"] ELSE <<>>

\* C1: when search has merged, the merged offers are those of every
\* provider call that returned, a call that raised counting as one that
\* returned an empty list: the offers of the other calls and strategies
\* are all there.
C1_FailingCallIsIsolated ==
    pc = "done" =>
        /\ all_offers = IsolatedFlexOffers \o IsolatedAltOffers \o IsolatedSplitOffers
        /\ (strategy_state["split_tickets"] = "returned" /\ split_i > 0 =>
               \E k \in 0..Len(split_offers) :
                  SubSeq(split_offers, k + 1, Len(split_offers))
                      = split_route_offers(split_calls, criteria))

\* C2: search never leaves by an exception, and when it has finished it
\* has returned one SearchResult (its offers may be none), whatever the
\* providers did and also with no provider at all.
C2_SearchNeverRaises ==
    /\ pc # "raised"
    /\ pc = "done" =>
          /\ Len(result) = 1
          /\ result[1].search_criteria = criteria
          /\ result[1].total_found = Len(result[1].offers)

C2_Witness ==
    /\ pc = "done"
    /\ \E s \in StrategyNames : strategy_state[s] = "raised"
    /\ \E i \in 1..Len(split_calls) : split_calls[i].outcome = "raised"
    /\ Len(result) = 1

\* C3: search merges and returns only when every strategy task has
\* returned or raised, so not at the first failure nor at the first
\* success while another task is pending; and once they all have settled
\* search eventually returns.
C3_WaitsForEveryStrategy ==
    /\ [](pc \in {"done", "raised"} => AllSettled)
    /\ [][pc' # pc /\ pc = "gather" => AllSettled]_vars
    /\ (pc = "gather" /\ AllSettled) ~> (pc = "done")

C3_Witness ==
    /\ pc = "done"
    /\ \E s \in StrategyNames : strategy_state[s] = "raised"
    /\ \E s \in StrategyNames :
          strategy_state[s] = "returned" /\ strategy_result[s] # <<>>
    /\ result # <<>> /\ result[1].offers # <<>>


\* C16: the total count of the SearchResult that search returns is the
\* number of merged offers before filtering, so it exceeds the number of
\* returned offers whenever the filter removed an offer.
C16_TotalFoundIsPreFilter ==
    pc = "done" =>
        LET unique_offers == deduplicate_offers(all_offers)
        IN  /\ result[1].total_found = Len(unique_offers)
            /\ Len(apply_filters(unique_offers, criteria)) < Len(unique_offers)
               => result[1].total_found > Len(result[1].offers)

\* the provider calls of the search that are in the model's state
IssuedCalls == flex_calls \o alt_calls \o split_calls

\* a call that queries the caller's route on the caller's first dates
QueriesCallerCriteria(call) ==
    /\ call.criteria.origin = criteria.origin
    /\ call.criteria.destination = criteria.destination
    /\ call.criteria.depart_dates # <<>>
    /\ criteria.depart_dates # <<>>
    /\ call.criteria.depart_dates[1] = criteria.depart_dates[1]
    /\ (criteria.return_dates = <<>>) = (call.criteria.return_dates = <<>>)
    /\ criteria.return_dates # <<>>
         => call.criteria.return_dates[1] = criteria.return_dates[1]

\* C21: in a search with at least one provider, each provider is called
\* exactly once with the caller's own criteria (same origin, destination
\* and first departure and return date); stated for criteria whose dates
\* parse.
C21_EveryProviderGetsCallerCriteria ==
    (pc = "done" /\ providers # <<>> /\ ~flex_raises_at_start(criteria)) =>
        \A k \in 1..Len(providers) :
            Cardinality({i \in 1..Len(IssuedCalls) :
                            /\ IssuedCalls[i].provider = providers[k]
                            /\ QueriesCallerCriteria(IssuedCalls[i])}) = 1

\* the (departure, return) combinations of the windows of the criteria, the
\* first one (earliest departure, earliest return) left out
WindowCombinations(c) ==
    LET departs == expand_dates(c.depart_dates[1])
        first == [depart |-> departs[1],
                  return |-> IF c.return_dates = <<>> THEN <<>>
                             ELSE <<expand_dates(c.return_dates[1])[1]>>]
        all == IF c.return_dates = <<>>
               THEN {[depart |-> departs[i], return |-> <<>>] :
                        i \in 1..Len(departs)}
               ELSE {[depart |-> departs[i],
                      return |-> <<expand_dates(c.return_dates[1])[j]>>] :
                        i \in 1..Len(departs), j \in 1..Len(departs)}
    IN  all \ {first}

\* the date combinations that the flexible-dates calls sent to provider p
FlexQueried(p) ==
    UNION {{date_queries(p, flex_calls[i].criteria)[k] :
               k \in 1..Len(date_queries(p, flex_calls[i].criteria))} :
           i \in {j \in 1..Len(flex_calls) : flex_calls[j].provider = p}}

\* C22: the flexible-dates strategy expands the departure date (and the
\* return date of a round trip) into the window of +/-3 days, and every
\* (departure, return) combination of the window other than the first one
\* is queried at every provider.
C22_EveryDateCombinationReachesEveryProvider ==
    strategy_state["flexible_dates"] = "returned" =>
        /\ \A i \in 1..Len(flex_calls) :
              flex_calls[i].criteria = expanded_criteria(criteria)
        /\ \A k \in 1..Len(providers) :
              WindowCombinations(criteria) \subseteq FlexQueried(providers[k])

\* the offers of a strategy that returned, its calls taken in the order in
\* which they were created
OrderedOffers(s) ==
    IF strategy_state[s] # "returned" THEN <<>>
    ELSE CASE s = "flexible_dates" -> collect_lists(flex_calls)
           [] s = "alternative_airports" -> collect_lists(alt_calls)
           [] s = "split_tickets" -> strategy_result[s]

\* C26: the merged sequence handed to deduplication is the concatenation of
\* the strategies' results in declared order, each strategy's offers in the
\* order in which its provider calls were created (pairs in loop order,
\* providers in registration order), whatever the order in which the calls
\* settled.
C26_MergeOrderIsDeclaredOrder ==
    pc = "done" =>
        /\ all_offers = OrderedOffers("flexible_dates")
                          \o OrderedOffers("alternative_airports")
                          \o OrderedOffers("split_tickets")
        /\ \A i \in 1..Len(alt_calls) :
              alt_calls[i].provider = providers[((i - 1) % Len(providers)) + 1]

\* a search has returned offers of all three strategies after a later call
\* of a gather settled before an earlier one
C26_Witness ==
    /\ pc = "done"
    /\ overtaken
    /\ Len(alt_calls) = 2
    /\ \A i \in 1..2 : alt_calls[i].offers # <<>>
    /\ \A s \in StrategyNames : strategy_state[s] = "returned" /\ strategy_result[s] # <<>>

C29_OneCombinationAtATime ==
    /\ [](/\ Len(split_calls) \in {0, 2 * Len(providers)}
          /\ Cardinality(Pending(split_calls)) <= 2 * Len(providers))
    /\ [][split_i' # split_i /\ split_i > 0 =>
             /\ split_i' = split_i + 1
             /\ Cardinality(Pending(split_calls)) = 1
             /\ Pending(split_calls') = 1..(2 * Len(providers))]_vars
    /\ [](split_i > 0 => strategy_state["split_tickets"] # "raised")
    /\ [](strategy_state["split_tickets"] = "returned" /\ split_i > 0
             => split_i = Len(limited_combinations(criteria, hub_order)))

\* the strategy has returned an offer of its last combination after a call
\* of an earlier combination raised
C29_Witness ==
    /\ strategy_state["split_tickets"] = "returned"
    /\ split_failed
    /\ split_i = Len(limited_combinations(criteria, hub_order))
    /\ split_i >= 2
    /\ Len(providers) = 2
    /\ strategy_result["split_tickets"] # <<>>

====
